---- MODULE Spec2Model ----
(***************************************************************************)
(* A model of Bundle3D (core/3d/Bundle3D.cpp): the loader of .c3b (binary) *)
(* and .c3t (JSON) 3D bundles.  A bundle is a record of the fields of the  *)
(* C++ object; a binary file is a sequence of bytes, a JSON file is the    *)
(* document it parses to.  Every method is an operator on the bundle       *)
(* record, and every public call is one action.                            *)
(***************************************************************************)
EXTENDS Integers, Sequences, FiniteSets, TLC

VARIABLES
    fs,              \* the files FileUtils serves: path -> [data, text, written],
                     \* written being what the writer of the file was given
    _modelPath,      \* Bundle3D::_modelPath
    _path,           \* Bundle3D::_path
    _version,        \* Bundle3D::_version
    _referenceCount, \* Bundle3D::_referenceCount
    _references,     \* Bundle3D::_references (nullptr or the table)
    _isBinary,       \* Bundle3D::_isBinary
    _binaryBuffer,   \* Bundle3D::_binaryBuffer
    _jsonBuffer,     \* Bundle3D::_jsonBuffer
    _binaryReader,   \* Bundle3D::_binaryReader: the buffer it was given, its cursor
    _jsonReader,     \* Bundle3D::_jsonReader: the parsed document
    meshdatas,       \* the caller's MeshDatas aggregate
    skindata,        \* the caller's SkinData aggregate
    nodedatas,       \* the caller's NodeDatas aggregate
    materialdatas,   \* the caller's MaterialDatas aggregate
    animationdata,   \* the caller's Animation3DData
    last,            \* the last call made and what it returned
    aborted          \* the process died (undefined behaviour took the crash outcome)

bundleVars == <<_modelPath, _path, _version, _referenceCount, _references, _isBinary,
                _binaryBuffer, _jsonBuffer, _binaryReader, _jsonReader>>
outVars == <<meshdatas, skindata, nodedatas, materialdatas, animationdata>>
vars == <<fs, bundleVars, outVars, last, aborted>>

(***************************************************************************)
(* Bounds of the model.                                                    *)
(***************************************************************************)
MaxRefs == 2         \* references written into a generated reference table

(***************************************************************************)
(* Program constants.                                                      *)
(***************************************************************************)
BUNDLE_TYPE_NODE == 2
BUNDLE_TYPE_ANIMATIONS == 3
BUNDLE_TYPE_MATERIAL == 16
BUNDLE_TYPE_MESH == 34
BUNDLE_TYPE_MESHSKIN == 36

NoReferences == [isNull |-> TRUE, arr |-> <<>>]   \* _references == nullptr
References(arr) == [isNull |-> FALSE, arr |-> arr]  \* new Reference[n], filled
Min(a, b) == IF a < b THEN a ELSE b

\* v bound to a name: Bind(e, LAMBDA x : body) is body with x standing for e.
Bind(v, F(_)) == F(v)

(***************************************************************************)
(* Paths.  A path is the record of its directory part (up to and with the  *)
(* last '/'), its file name and its extension; the empty string is the     *)
(* record of three empty parts.                                            *)
(***************************************************************************)
EmptyPath == [dir |-> "", name |-> "", ext |-> ""]
PathA == [dir |-> "m/", name |-> "a", ext |-> ".c3b"]
PathB == [dir |-> "", name |-> "b", ext |-> ".c3b"]
PathT == [dir |-> "m/", name |-> "t", ext |-> ".c3t"]
PathX == [dir |-> "", name |-> "x", ext |-> ".obj"]
PathS == [dir |-> "", name |-> "", ext |-> ".c3b"]
Paths == {PathA, PathB, PathT, PathX, PathS}

\* path.length()
Length(path) == Len(path.dir) + Len(path.name) + Len(path.ext)

getFileExtension(path) == path.ext

(***************************************************************************)
(* Writing the binary format (spec section 6): native-endian fixed-width   *)
(* integers, length-prefixed strings.                                      *)
(***************************************************************************)
RECURSIVE Flatten(_)
Flatten(ss) == IF ss = <<>> THEN <<>> ELSE Head(ss) \o Flatten(Tail(ss))

WriteU16(n) == <<n % 256, (n \div 256) % 256>>
WriteU32(n) == <<n % 256, (n \div 256) % 256, (n \div 65536) % 256, (n \div 16777216) % 256>>
WriteString(s) == WriteU32(Len(s)) \o s
WriteFloats(fl) == Flatten([i \in 1..Len(fl) |-> WriteU32(fl[i])])
WriteHeader(major, minor) == <<67, 51, 66, 0, major, minor>>
WriteReference(ref) == WriteString(ref.id) \o WriteU32(ref.type) \o WriteU32(ref.offset)
WriteReferences(refs) ==
    WriteU32(Len(refs)) \o Flatten([i \in 1..Len(refs) |-> WriteReference(refs[i])])

(***************************************************************************)
(* std::string built from the bytes of a file: the characters of codes     *)
(* 32..126 (but quote, backslash and backquote) are themselves, any other  *)
(* byte is written #code;.                                                 *)
(***************************************************************************)
Ascii ==
    <<
      " ", "!", "?", "#", "$", "%", "&", "'", "(", ")", "*", "+", ",", "-", ".", "/",
      "0", "1", "2", "3", "4", "5", "6", "7", "8", "9", ":", ";", "<", "=", ">", "?",
      "@", "A", "B", "C", "D", "E", "F", "G", "H", "I", "J", "K", "L", "M", "N", "O",
      "P", "Q", "R", "S", "T", "U", "V", "W", "X", "Y", "Z", "[", "?", "]", "^", "_",
      "?", "a", "b", "c", "d", "e", "f", "g", "h", "i", "j", "k", "l", "m", "n", "o",
      "p", "q", "r", "s", "t", "u", "v", "w", "x", "y", "z", "{", "|", "}", "~"
    >>

Chr(c) == IF c >= 32 /\ c <= 126 /\ c /= 34 /\ c /= 92 /\ c /= 96 THEN Ascii[c - 31] ELSE "#" \o ToString(c) \o ";"

RECURSIVE ToStr(_)
ToStr(chars) == IF chars = <<>> THEN "" ELSE Chr(Head(chars)) \o ToStr(Tail(chars))

(***************************************************************************)
(* The primitive reader (BundleReader; spec section 4.1).  A reader is     *)
(* [buffer, position].  read transfers whole elements only and returns how *)
(* many it transferred.                                                    *)
(***************************************************************************)
RECURSIVE Decode(_, _, _)
Decode(buffer, at, size) ==
    IF size = 0 THEN 0 ELSE buffer[at + 1] + 256 * Decode(buffer, at + 1, size - 1)

read(reader, size, count) ==
    LET avail == IF reader.position >= Len(reader.buffer) THEN 0
                 ELSE Len(reader.buffer) - reader.position
        n == Min(count, avail \div size)
    IN  [n |-> n,
         elems |-> [k \in 1..n |-> Decode(reader.buffer, reader.position + (k - 1) * size, size)],
         reader |-> [reader EXCEPT !.position = @ + n * size]]

readString(reader) ==
    Bind(read(reader, 4, 1), LAMBDA len :
    IF len.n /= 1 THEN [str |-> "", reader |-> len.reader]
    ELSE Bind(read(len.reader, 1, len.elems[1]), LAMBDA chars :
         IF chars.n /= len.elems[1] THEN [str |-> "", reader |-> chars.reader]
         ELSE [str |-> ToStr(chars.elems), reader |-> chars.reader]))

readMatrix(reader) ==
    Bind(read(reader, 4, 16), LAMBDA m :
    [ok |-> m.n = 16, m |-> m.elems, reader |-> m.reader])

seek(reader, offset) ==
    IF reader.buffer = <<>> \/ offset > Len(reader.buffer)
    THEN [ok |-> FALSE, reader |-> reader]
    ELSE [ok |-> TRUE, reader |-> [reader EXCEPT !.position = offset]]

(***************************************************************************)
(* FileUtils, as the loaders use it.                                       *)
(***************************************************************************)
NoText == [parses |-> FALSE, doc |-> [none |-> TRUE]]
NoFile == [data |-> <<>>, text |-> NoText, written |-> <<>>]
BinaryFile(bytes, written) == [data |-> bytes, text |-> NoText, written |-> written]
JsonFile(doc) == [data |-> <<123>>, text |-> [parses |-> TRUE, doc |-> doc], written |-> <<>>]
getDataFromFile(path) == fs[path].data
getStringFromFile(path) == fs[path].text

(***************************************************************************)
(* The bundle as a record, so that a method is an operator on it.          *)
(***************************************************************************)
Bundle ==
    [_modelPath |-> _modelPath, _path |-> _path, _version |-> _version,
     _referenceCount |-> _referenceCount, _references |-> _references,
     _isBinary |-> _isBinary, _binaryBuffer |-> _binaryBuffer,
     _jsonBuffer |-> _jsonBuffer, _binaryReader |-> _binaryReader,
     _jsonReader |-> _jsonReader]

SetBundle(self) ==
    /\ _modelPath' = self._modelPath
    /\ _path' = self._path
    /\ _version' = self._version
    /\ _referenceCount' = self._referenceCount
    /\ _references' = self._references
    /\ _isBinary' = self._isBinary
    /\ _binaryBuffer' = self._binaryBuffer
    /\ _jsonBuffer' = self._jsonBuffer
    /\ _binaryReader' = self._binaryReader
    /\ _jsonReader' = self._jsonReader

NewBundle ==
    [_modelPath |-> "", _path |-> EmptyPath, _version |-> "",
     _referenceCount |-> 0, _references |-> NoReferences, _isBinary |-> FALSE,
     _binaryBuffer |-> <<>>, _jsonBuffer |-> NoText,
     _binaryReader |-> [buffer |-> <<>>, position |-> 0],
     _jsonReader |-> NoText.doc]

clear(self) ==
    IF self._isBinary
    THEN [self EXCEPT !._binaryBuffer = <<>>, !._references = NoReferences]
    ELSE [self EXCEPT !._jsonBuffer = NoText]

getModelRelativePath(self, path) == [self EXCEPT !._modelPath = path.dir]

loadJson(self, path) ==
    Bind([clear(self) EXCEPT !._jsonBuffer = getStringFromFile(path)], LAMBDA s :
    IF ~s._jsonBuffer.parses
    THEN [self |-> clear(s), ret |-> FALSE]
    ELSE Bind(s._jsonBuffer.doc.version, LAMBDA mash_data_array :
         [self |-> [s EXCEPT !._jsonReader = s._jsonBuffer.doc,
                             !._version = IF mash_data_array.IsArray THEN "1.2"
                                          ELSE mash_data_array.GetString],
          ret |-> TRUE]))

\* readReferences with the type and the offset of a reference taken for each other.
RECURSIVE readReferencesSwapped(_, _, _, _)
readReferencesSwapped(reader, refs, i, count) ==
    IF i >= count THEN [ok |-> TRUE, refs |-> refs, reader |-> reader]
    ELSE Bind(readString(reader), LAMBDA id :
         IF id.str = "" THEN [ok |-> FALSE, refs |-> refs, reader |-> id.reader]
         ELSE Bind(read(id.reader, 4, 2), LAMBDA pair :
              IF pair.n /= 2 THEN [ok |-> FALSE, refs |-> refs, reader |-> pair.reader]
              ELSE readReferencesSwapped(pair.reader,
                       Append(refs, [id |-> id.str, type |-> pair.elems[2],
                                     offset |-> pair.elems[1]]),
                       i + 1, count)))

RECURSIVE readReferences(_, _, _, _)
readReferences(reader, refs, i, count) ==
    IF i >= count THEN [ok |-> TRUE, refs |-> refs, reader |-> reader]
    ELSE Bind(readString(reader), LAMBDA id :
         IF id.str = "" THEN [ok |-> FALSE, refs |-> refs, reader |-> id.reader]
         ELSE Bind(read(id.reader, 4, 1), LAMBDA type :
              IF type.n /= 1 THEN [ok |-> FALSE, refs |-> refs, reader |-> type.reader]
              ELSE Bind(read(type.reader, 4, 1), LAMBDA offset :
                   IF offset.n /= 1
                   THEN [ok |-> FALSE, refs |-> refs, reader |-> offset.reader]
                   ELSE readReferences(offset.reader,
                            Append(refs, [id |-> id.str, type |-> type.elems[1],
                                          offset |-> offset.elems[1]]),
                            i + 1, count))))

\* The bundle with its reader left where a read left it.
At(self, reader) == [self EXCEPT !._binaryReader = reader]

loadBinary(self, path) ==
    Bind([clear(self) EXCEPT !._binaryBuffer = getDataFromFile(path)], LAMBDA s1 :
    IF s1._binaryBuffer = <<>>
    THEN [self |-> clear(s1), ret |-> FALSE]
    ELSE
    Bind(read([buffer |-> s1._binaryBuffer, position |-> 0], 1, 4), LAMBDA sig :
    IF sig.n /= 4 \/ sig.elems /= <<67, 51, 66, 0>>
    THEN [self |-> clear(At(s1, sig.reader)), ret |-> FALSE]
    ELSE
    Bind(read(sig.reader, 1, 2), LAMBDA ver :
    IF ver.n /= 2
    THEN [self |-> At(s1, ver.reader), ret |-> FALSE]
    ELSE
    Bind([s1 EXCEPT !._version = ToString(ver.elems[1]) \o "." \o ToString(ver.elems[2])],
         LAMBDA s2 :
    Bind(read(ver.reader, 4, 1), LAMBDA cnt :
    IF cnt.n /= 1
    THEN [self |-> clear(At(s2, cnt.reader)), ret |-> FALSE]
    ELSE
    Bind(readReferences(cnt.reader, <<>>, 0, cnt.elems[1]), LAMBDA refs :
    Bind([s2 EXCEPT !._referenceCount = cnt.elems[1], !._binaryReader = refs.reader,
                    !._references = References(refs.refs)], LAMBDA s3 :
    IF ~refs.ok
    THEN [self |-> clear(s3), ret |-> FALSE]
    ELSE [self |-> s3, ret |-> TRUE])))))))

\* load taking every file that is not a ".c3t" for a binary bundle.
loadBinaryByDefault(self, path) ==
    IF path = EmptyPath THEN [self |-> self, ret |-> FALSE]
    ELSE IF self._path = path THEN [self |-> self, ret |-> TRUE]
    ELSE
    Bind(getModelRelativePath(self, path), LAMBDA s1 :
    Bind(IF getFileExtension(path) = ".c3t"
         THEN loadJson([s1 EXCEPT !._isBinary = FALSE], path)
         ELSE loadBinary([s1 EXCEPT !._isBinary = TRUE], path), LAMBDA r :
    [self |-> [r.self EXCEPT !._path = IF r.ret THEN path ELSE EmptyPath],
     ret |-> r.ret]))

\* load that leaves _path as it was when the parse fails.
loadKeepingPath(self, path) ==
    IF path = EmptyPath THEN [self |-> self, ret |-> FALSE]
    ELSE IF self._path = path THEN [self |-> self, ret |-> TRUE]
    ELSE
    Bind(getModelRelativePath(self, path), LAMBDA s1 :
    Bind(IF getFileExtension(path) = ".c3t"
         THEN loadJson([s1 EXCEPT !._isBinary = FALSE], path)
         ELSE IF getFileExtension(path) = ".c3b"
         THEN loadBinary([s1 EXCEPT !._isBinary = TRUE], path)
         ELSE [self |-> s1, ret |-> FALSE], LAMBDA r :
    [self |-> [r.self EXCEPT !._path = IF r.ret THEN path ELSE @],
     ret |-> r.ret]))

\* load without the test for the path already loaded: every call parses.
loadAgain(self, path) ==
    IF path = EmptyPath THEN [self |-> self, ret |-> FALSE]
    ELSE
    Bind(getModelRelativePath(self, path), LAMBDA s1 :
    Bind(IF getFileExtension(path) = ".c3t"
         THEN loadJson([s1 EXCEPT !._isBinary = FALSE], path)
         ELSE IF getFileExtension(path) = ".c3b"
         THEN loadBinary([s1 EXCEPT !._isBinary = TRUE], path)
         ELSE [self |-> s1, ret |-> FALSE], LAMBDA r :
    [self |-> [r.self EXCEPT !._path = IF r.ret THEN path ELSE EmptyPath],
     ret |-> r.ret]))

load(self, path) ==
    IF path = EmptyPath THEN [self |-> self, ret |-> FALSE]
    ELSE IF self._path = path THEN [self |-> self, ret |-> TRUE]
    ELSE
    Bind(getModelRelativePath(self, path), LAMBDA s1 :
    Bind(IF getFileExtension(path) = ".c3t"
         THEN loadJson([s1 EXCEPT !._isBinary = FALSE], path)
         ELSE IF getFileExtension(path) = ".c3b"
         THEN loadBinary([s1 EXCEPT !._isBinary = TRUE], path)
         ELSE [self |-> s1, ret |-> FALSE], LAMBDA r :
    [self |-> [r.self EXCEPT !._path = IF r.ret THEN path ELSE EmptyPath],
     ret |-> r.ret]))

(***************************************************************************)
(* seekToFirstType: the index (from 1) of the reference found, 0 for       *)
(* nullptr.  With _referenceCount > 0 and no table, the first iteration    *)
(* dereferences a null pointer.                                            *)
(***************************************************************************)
\* The scan going on to the next reference after a seek that failed.
RECURSIVE seekScanRetry(_, _, _, _)
seekScanRetry(self, type, id, i) ==
    IF i >= self._referenceCount
    THEN [ref |-> 0, self |-> self, fault |-> ""]
    ELSE IF self._references.isNull \/ i >= Len(self._references.arr)
    THEN [ref |-> 0, self |-> self, fault |-> "null_table"]
    ELSE Bind(self._references.arr[i + 1], LAMBDA ref :
         IF ref.type = type /\ (id = "" \/ id = ref.id) /\ seek(self._binaryReader, ref.offset).ok
         THEN [ref |-> i + 1,
               self |-> At(self, seek(self._binaryReader, ref.offset).reader),
               fault |-> ""]
         ELSE seekScanRetry(self, type, id, i + 1))

RECURSIVE seekScan(_, _, _, _)
seekScan(self, type, id, i) ==
    IF i >= self._referenceCount
    THEN [ref |-> 0, self |-> self, fault |-> ""]
    ELSE IF self._references.isNull \/ i >= Len(self._references.arr)
    THEN [ref |-> 0, self |-> self, fault |-> "null_table"]
    ELSE Bind(self._references.arr[i + 1], LAMBDA ref :
         IF ref.type = type
         THEN IF id /= "" /\ id /= ref.id
              THEN seekScan(self, type, id, i + 1)
              ELSE Bind(seek(self._binaryReader, ref.offset), LAMBDA sk :
                   IF ~sk.ok THEN [ref |-> 0, self |-> self, fault |-> ""]
                   ELSE [ref |-> i + 1, self |-> At(self, sk.reader), fault |-> ""])
         ELSE seekScan(self, type, id, i + 1))

seekToFirstType(self, type, id) == seekScan(self, type, id, 0)

(***************************************************************************)
(* The translators.  Each gives the value returned and whether the         *)
(* AXASSERT of its fallback branch was reached.                            *)
(***************************************************************************)
Translated(v) == [value |-> v, asserted |-> FALSE]
Fallback(v) == [value |-> v, asserted |-> TRUE]

parseGLDataType(str, size) ==
    IF str = "GL_BYTE" \/ str = "GL_UNSIGNED_BYTE"
    THEN IF size = 4 THEN Translated("UBYTE4") ELSE Fallback("INT")
    ELSE IF str = "GL_SHORT" \/ str = "GL_UNSIGNED_SHORT"
    THEN IF size = 2 THEN Translated("USHORT2")
         ELSE IF size = 4 THEN Translated("USHORT4") ELSE Fallback("INT")
    ELSE IF str = "GL_INT" \/ str = "GL_UNSIGNED_INT"
    THEN IF size = 1 THEN Translated("INT")
         ELSE IF size = 2 THEN Translated("INT2")
         ELSE IF size = 3 THEN Translated("INT3")
         ELSE IF size = 4 THEN Translated("INT4") ELSE Fallback("INT")
    ELSE IF str = "GL_FLOAT"
    THEN IF size = 1 THEN Translated("FLOAT")
         ELSE IF size = 2 THEN Translated("FLOAT2")
         ELSE IF size = 3 THEN Translated("FLOAT3")
         ELSE IF size = 4 THEN Translated("FLOAT4") ELSE Fallback("INT")
    ELSE Fallback("INT")

VertexKeys ==
    {"VERTEX_ATTRIB_POSITION", "VERTEX_ATTRIB_COLOR", "VERTEX_ATTRIB_TEX_COORD",
     "VERTEX_ATTRIB_TEX_COORD1", "VERTEX_ATTRIB_TEX_COORD2", "VERTEX_ATTRIB_TEX_COORD3",
     "VERTEX_ATTRIB_NORMAL", "VERTEX_ATTRIB_BLEND_WEIGHT", "VERTEX_ATTRIB_BLEND_INDEX",
     "VERTEX_ATTRIB_TANGENT", "VERTEX_ATTRIB_BINORMAL"}

parseGLProgramAttribute(str) ==
    IF str \in VertexKeys THEN Translated(str) ELSE Fallback("VERTEX_ATTRIB_ERROR")

(***************************************************************************)
(* MeshData and the bounding box of an index subset.                       *)
(***************************************************************************)
NewMeshData ==
    [attribCount |-> 0, attribs |-> <<>>, vertex |-> <<>>, subMeshIds |-> <<>>,
     subMeshIndices |-> <<>>, subMeshAABB |-> <<>>, numIndex |-> 0]

getAttribSizeBytes(type) ==
    CASE type \in {"FLOAT4", "INT4"} -> 16
      [] type \in {"FLOAT3", "INT3"} -> 12
      [] type \in {"FLOAT2", "INT2", "USHORT4"} -> 8
      [] OTHER -> 4

RECURSIVE SumSizes(_)
SumSizes(attribs) ==
    IF attribs = <<>> THEN 0
    ELSE getAttribSizeBytes(Head(attribs).type) + SumSizes(Tail(attribs))

getPerVertexSize(meshData) == SumSizes(meshData.attribs)

AABB(min, max) == [_min |-> min, _max |-> max, indeterminate |-> FALSE]
AABBReset == AABB(<<99999, 99999, 99999>>, <<-99999, -99999, -99999>>)

updateMinMax(aabb, point) ==
    [aabb EXCEPT
        !._min = [c \in 1..3 |-> IF point[c] < @[c] THEN point[c] ELSE @[c]],
        !._max = [c \in 1..3 |-> IF point[c] > @[c] THEN point[c] ELSE @[c]]]

RECURSIVE calculateAABBFrom(_, _, _, _)
calculateAABBFrom(aabb, vertex, stride, indices) ==
    IF indices = <<>> THEN aabb
    ELSE LET i == Head(indices) IN
         IF i * stride + 3 > Len(vertex)
         THEN calculateAABBFrom([aabb EXCEPT !.indeterminate = TRUE], vertex, stride,
                                Tail(indices))
         ELSE calculateAABBFrom(
                  updateMinMax(aabb, <<vertex[i * stride + 1], vertex[i * stride + 2],
                                       vertex[i * stride + 3]>>),
                  vertex, stride, Tail(indices))

calculateAABB(vertex, stride, indices) ==
    calculateAABBFrom(AABBReset, vertex, stride \div 4, indices)

(***************************************************************************)
(* loadMeshDatasBinary.  The MeshData objects allocated by one call are    *)
(* numbered from 1 in the order of their allocation; frees[k] counts the   *)
(* deletes of object k.                                                    *)
(***************************************************************************)
Worse(f1, f2) == IF f1 /= "" THEN f1 ELSE f2

\* What a step of a loader leaves: whether it went through, the reader, the
\* MeshData under construction and the fault met so far.
Step(ok, reader, meshData, fault) ==
    [ok |-> ok, reader |-> reader, meshData |-> meshData, fault |-> fault]

RECURSIVE readAttribs(_, _, _, _)
readAttribs(reader, meshData, j, fault) ==
    IF j >= meshData.attribCount THEN Step(TRUE, reader, meshData, fault)
    ELSE Bind(read(reader, 4, 1), LAMBDA vSize :
         IF vSize.n /= 1 THEN Step(FALSE, vSize.reader, meshData, fault)
         ELSE Bind(readString(vSize.reader), LAMBDA type :
              Bind(readString(type.reader), LAMBDA attribute :
              Bind(parseGLDataType(type.str, vSize.elems[1]), LAMBDA t :
              Bind(parseGLProgramAttribute(attribute.str), LAMBDA a :
              readAttribs(attribute.reader,
                  [meshData EXCEPT !.attribs =
                      Append(@, [type |-> t.value, vertexAttrib |-> a.value])],
                  j + 1,
                  IF t.asserted \/ a.asserted THEN Worse(fault, "assert") ELSE fault))))))

RECURSIVE readMeshParts(_, _, _, _, _, _)
readMeshParts(reader, meshData, k, meshPartCount, version, fault) ==
    IF k >= meshPartCount THEN Step(TRUE, reader, meshData, fault)
    ELSE
    Bind(readString(reader), LAMBDA meshPartid :
    Bind([meshData EXCEPT !.subMeshIds = Append(@, meshPartid.str)], LAMBDA m1 :
    Bind(read(meshPartid.reader, 4, 1), LAMBDA nIndexCount :
    IF nIndexCount.n /= 1 THEN Step(FALSE, nIndexCount.reader, m1, fault)
    ELSE
    Bind(read(nIndexCount.reader, 2, nIndexCount.elems[1]), LAMBDA indexArray :
    IF indexArray.n /= nIndexCount.elems[1] THEN Step(FALSE, indexArray.reader, m1, fault)
    ELSE
    Bind([m1 EXCEPT !.subMeshIndices = Append(@, indexArray.elems),
                    !.numIndex = Len(m1.subMeshIndices) + 1], LAMBDA m2 :
    IF version /= "0.3" /\ version /= "0.4" /\ version /= "0.5"
    THEN Bind(read(indexArray.reader, 4, 6), LAMBDA aabb :
         IF aabb.n /= 6 THEN Step(FALSE, aabb.reader, m2, fault)
         ELSE readMeshParts(aabb.reader,
                  [m2 EXCEPT !.subMeshAABB =
                      Append(@, AABB(SubSeq(aabb.elems, 1, 3), SubSeq(aabb.elems, 4, 6)))],
                  k + 1, meshPartCount, version, fault))
    ELSE Bind(calculateAABB(m2.vertex, getPerVertexSize(m2), indexArray.elems), LAMBDA box :
         readMeshParts(indexArray.reader,
             [m2 EXCEPT !.subMeshAABB = Append(@, box)],
             k + 1, meshPartCount, version,
             IF box.indeterminate THEN Worse(fault, "oob_read") ELSE fault)))))))

\* One pass of the loop over the meshes: allocated tells whether the pass came
\* to its new MeshData().
Pass(step, allocated) ==
    [ok |-> step.ok, allocated |-> allocated, reader |-> step.reader,
     meshData |-> step.meshData, fault |-> step.fault]

readMesh(reader, version) ==
    Bind(read(reader, 4, 1), LAMBDA attribSize :
    IF attribSize.n /= 1 \/ attribSize.elems[1] < 1
    THEN Pass(Step(FALSE, attribSize.reader, NewMeshData, ""), FALSE)
    ELSE
    Bind(readAttribs(attribSize.reader,
                     [NewMeshData EXCEPT !.attribCount = attribSize.elems[1]], 0, ""),
         LAMBDA at :
    IF ~at.ok THEN Pass(at, TRUE)
    ELSE
    Bind(read(at.reader, 4, 1), LAMBDA vertexSizeInFloat :
    IF vertexSizeInFloat.n /= 1 \/ vertexSizeInFloat.elems[1] = 0
    THEN Pass(Step(FALSE, vertexSizeInFloat.reader, at.meshData, at.fault), TRUE)
    ELSE
    Bind(read(vertexSizeInFloat.reader, 4, vertexSizeInFloat.elems[1]), LAMBDA vertex :
    IF vertex.n /= vertexSizeInFloat.elems[1]
    THEN Pass(Step(FALSE, vertex.reader, at.meshData, at.fault), TRUE)
    ELSE
    Bind(read(vertex.reader, 4, 1), LAMBDA partCount :
    Pass(readMeshParts(partCount.reader, [at.meshData EXCEPT !.vertex = vertex.elems], 0,
                       IF partCount.n = 1 THEN partCount.elems[1] ELSE 1,
                       version, at.fault),
         TRUE))))))

\* FAILED: AX_SAFE_DELETE(meshData), where meshData is the object of this pass
\* when the pass allocated one and else still the object of the pass before
\* (nullptr in the first pass); then every object of meshdatas.meshDatas.
FailedFrees(appended, allocated) ==
    [k \in 1..(appended + (IF allocated THEN 1 ELSE 0)) |->
        IF allocated THEN 1
        ELSE IF k = appended THEN 2 ELSE 1]

DoubleFreed(frees) == \E k \in DOMAIN frees : frees[k] > 1

RECURSIVE readMeshes(_, _, _, _, _, _)
readMeshes(reader, i, meshSize, meshDatas, version, fault) ==
    IF i >= meshSize
    THEN [ret |-> TRUE, reader |-> reader, meshDatas |-> meshDatas, fault |-> fault,
          frees |-> [k \in 1..Len(meshDatas) |-> 0]]
    ELSE Bind(readMesh(reader, version), LAMBDA m :
         IF ~m.ok
         THEN Bind(FailedFrees(Len(meshDatas), m.allocated), LAMBDA frees :
              [ret |-> FALSE, reader |-> m.reader, meshDatas |-> <<>>,
               fault |-> IF DoubleFreed(frees) THEN "double_free"
                         ELSE Worse(fault, m.fault),
               frees |-> frees])
         ELSE readMeshes(m.reader, i + 1, meshSize, Append(meshDatas, m.meshData),
                         version, Worse(fault, m.fault)))

NoMeshes(self, fault) ==
    [ret |-> FALSE, self |-> self, meshDatas |-> <<>>, fault |-> fault, frees |-> <<>>]

loadMeshDatasBinary(self) ==
    Bind(seekToFirstType(self, BUNDLE_TYPE_MESH, ""), LAMBDA sk :
    IF sk.ref = 0 THEN NoMeshes(sk.self, sk.fault)
    ELSE Bind(read(sk.self._binaryReader, 4, 1), LAMBDA meshSize :
         IF meshSize.n /= 1 THEN NoMeshes(At(sk.self, meshSize.reader), "")
         ELSE Bind(readMeshes(meshSize.reader, 0, meshSize.elems[1], <<>>,
                              self._version, ""), LAMBDA r :
              [ret |-> r.ret, self |-> At(sk.self, r.reader),
               meshDatas |-> r.meshDatas, fault |-> r.fault, frees |-> r.frees])))

(***************************************************************************)
(* loadMeshDatasBinary_0_1 (versions "0.1" and "0.2"): one mesh, one       *)
(* implicit part, attributes as (usage, size) pairs.                       *)
(***************************************************************************)
LegacyUsage(vUsage) ==
    CASE vUsage = 3 -> Translated("VERTEX_ATTRIB_NORMAL")
      [] vUsage = 4 -> Translated("VERTEX_ATTRIB_BLEND_WEIGHT")
      [] vUsage = 5 -> Translated("VERTEX_ATTRIB_BLEND_INDEX")
      [] vUsage = 0 -> Translated("VERTEX_ATTRIB_POSITION")
      [] vUsage = 2 -> Translated("VERTEX_ATTRIB_TEX_COORD")
      [] OTHER -> Fallback("VERTEX_ATTRIB_ERROR")

RECURSIVE readAttribs_0_1(_, _, _, _, _)
readAttribs_0_1(reader, meshData, i, attribSize, fault) ==
    IF i >= attribSize THEN Step(TRUE, reader, meshData, fault)
    ELSE Bind(read(reader, 4, 1), LAMBDA vUsage :
         IF vUsage.n /= 1 THEN Step(FALSE, vUsage.reader, meshData, fault)
         ELSE Bind(read(vUsage.reader, 4, 1), LAMBDA vSize :
              IF vSize.n /= 1 THEN Step(FALSE, vSize.reader, meshData, fault)
              ELSE Bind(parseGLDataType("GL_FLOAT", vSize.elems[1]), LAMBDA t :
                   Bind(LegacyUsage(vUsage.elems[1]), LAMBDA a :
                   readAttribs_0_1(vSize.reader,
                       [meshData EXCEPT !.attribs =
                           Append(@, [type |-> t.value, vertexAttrib |-> a.value])],
                       i + 1, attribSize,
                       IF t.asserted \/ a.asserted THEN Worse(fault, "assert")
                       ELSE fault)))))

\* FAILED of the legacy loader: the one MeshData is deleted.
Failed_0_1(self, reader, fault) ==
    [ret |-> FALSE, self |-> At(self, reader), meshDatas |-> <<>>, fault |-> fault,
     frees |-> <<1>>]

loadMeshDatasBinary_0_1(self) ==
    Bind(seekToFirstType(self, BUNDLE_TYPE_MESH, ""), LAMBDA sk :
    IF sk.ref = 0 THEN NoMeshes(sk.self, sk.fault)
    ELSE
    Bind(read(sk.self._binaryReader, 4, 1), LAMBDA attribSize :
    IF attribSize.n /= 1 \/ attribSize.elems[1] < 1
    THEN Failed_0_1(sk.self, attribSize.reader, "")
    ELSE
    Bind(readAttribs_0_1(attribSize.reader, NewMeshData, 0, attribSize.elems[1], ""),
         LAMBDA at :
    IF ~at.ok THEN Failed_0_1(sk.self, at.reader, at.fault)
    ELSE
    Bind(read(at.reader, 4, 1), LAMBDA vertexSizeInFloat :
    IF vertexSizeInFloat.n /= 1 \/ vertexSizeInFloat.elems[1] = 0
    THEN Failed_0_1(sk.self, vertexSizeInFloat.reader, at.fault)
    ELSE
    Bind(read(vertexSizeInFloat.reader, 4, vertexSizeInFloat.elems[1]), LAMBDA vertex :
    IF vertex.n /= vertexSizeInFloat.elems[1]
    THEN Failed_0_1(sk.self, vertex.reader, at.fault)
    ELSE
    Bind(read(vertex.reader, 4, 1), LAMBDA nIndexCount :
    IF nIndexCount.n /= 1 THEN Failed_0_1(sk.self, nIndexCount.reader, at.fault)
    ELSE
    Bind(read(nIndexCount.reader, 2, nIndexCount.elems[1]), LAMBDA indices :
    IF indices.n /= nIndexCount.elems[1] THEN Failed_0_1(sk.self, indices.reader, at.fault)
    ELSE
    Bind([at.meshData EXCEPT !.vertex = vertex.elems], LAMBDA m1 :
    Bind(calculateAABB(m1.vertex, getPerVertexSize(m1), indices.elems), LAMBDA box :
    [ret |-> TRUE, self |-> At(sk.self, indices.reader),
     meshDatas |-> <<[m1 EXCEPT !.subMeshIndices = <<indices.elems>>,
                                !.subMeshAABB = <<box>>]>>,
     fault |-> IF box.indeterminate THEN Worse(at.fault, "oob_read") ELSE at.fault,
     frees |-> <<0>>])))))))))

(***************************************************************************)
(* The JSON mesh loaders.  A JSON object is a record, an array a sequence; *)
(* reading a member that is absent reaches an assertion of the JSON        *)
(* library and yields a null value (an empty array, 0).                    *)
(***************************************************************************)
HasMember(val, name) == name \in DOMAIN val
Member(val, name, default) == IF HasMember(val, name) THEN val[name] ELSE default
Missing(val, names) == \E n \in names : ~HasMember(val, n)

RECURSIVE jsonAttribs(_, _, _, _)
jsonAttribs(attributes, i, attribs, fault) ==
    IF i > Len(attributes) THEN [attribs |-> attribs, fault |-> fault]
    ELSE Bind(attributes[i], LAMBDA val :
         Bind(parseGLDataType(Member(val, "type", ""), Member(val, "size", 0)), LAMBDA t :
         Bind(parseGLProgramAttribute(Member(val, "attribute", "")), LAMBDA a :
         jsonAttribs(attributes, i + 1,
             Append(attribs, [type |-> t.value, vertexAttrib |-> a.value]),
             IF t.asserted \/ a.asserted \/ Missing(val, {"type", "size", "attribute"})
             THEN Worse(fault, "assert") ELSE fault))))

RECURSIVE jsonMeshParts(_, _, _, _, _)
jsonMeshParts(mesh_data, mesh_part_array, i, meshData, fault) ==
    IF i > Len(mesh_part_array) THEN [meshData |-> meshData, fault |-> fault]
    ELSE
    Bind(mesh_part_array[i], LAMBDA mesh_part :
    Bind(Member(mesh_part, "indices", <<>>), LAMBDA indexArray :
    Bind([meshData EXCEPT !.subMeshIds = Append(@, Member(mesh_part, "id", "")),
                          !.subMeshIndices = Append(@, indexArray),
                          !.numIndex = Len(meshData.subMeshIndices) + 1], LAMBDA m1 :
    Bind(IF HasMember(mesh_data, "aabb") /\ HasMember(mesh_part, "aabb")
            /\ Len(mesh_part.aabb) = 6
         THEN AABB(SubSeq(mesh_part.aabb, 1, 3), SubSeq(mesh_part.aabb, 4, 6))
         ELSE calculateAABB(m1.vertex, getPerVertexSize(m1), indexArray), LAMBDA box :
    Bind(IF Missing(mesh_part, {"id", "indices"})
            \/ (HasMember(mesh_data, "aabb") /\ ~HasMember(mesh_part, "aabb"))
         THEN Worse(fault, "assert") ELSE fault, LAMBDA f1 :
    jsonMeshParts(mesh_data, mesh_part_array, i + 1,
        [m1 EXCEPT !.subMeshAABB = Append(@, box)],
        IF box.indeterminate THEN Worse(f1, "oob_read") ELSE f1))))))

RECURSIVE jsonMeshes(_, _, _, _)
jsonMeshes(mesh_data_array, i, meshDatas, fault) ==
    IF i > Len(mesh_data_array) THEN [meshDatas |-> meshDatas, fault |-> fault]
    ELSE
    Bind(mesh_data_array[i], LAMBDA mesh_data :
    Bind(jsonAttribs(Member(mesh_data, "attributes", <<>>), 1, <<>>, ""), LAMBDA at :
    Bind(jsonMeshParts(mesh_data, Member(mesh_data, "parts", <<>>), 1,
             [NewMeshData EXCEPT !.attribCount = Len(at.attribs), !.attribs = at.attribs,
                                 !.vertex = Member(mesh_data, "vertices", <<>>)],
             at.fault), LAMBDA parts :
    jsonMeshes(mesh_data_array, i + 1, Append(meshDatas, parts.meshData),
        IF Missing(mesh_data, {"attributes", "vertices", "parts"})
        THEN Worse(fault, "assert") ELSE Worse(fault, parts.fault)))))

loadMeshDatasJson(self) ==
    Bind(jsonMeshes(Member(self._jsonReader, "meshes", <<>>), 1, <<>>, ""), LAMBDA r :
    [ret |-> TRUE, self |-> self, meshDatas |-> r.meshDatas,
     fault |-> IF ~HasMember(self._jsonReader, "meshes") THEN "assert" ELSE r.fault,
     frees |-> [k \in 1..Len(r.meshDatas) |-> 0]])

\* _jsonReader["mesh"][0]["body"][0] holds vertexsize, vertices, indexnum and
\* indices; vertex and indices are sized by vertexsize and indexnum and then
\* written at 0..Size()-1.
Resized(values, size) == [i \in 1..size |-> IF i <= Len(values) THEN values[i] ELSE 0]
First(array) == IF array = <<>> THEN [none |-> TRUE] ELSE array[1]

loadMeshDataJson_0_1(self) ==
    Bind(Member(self._jsonReader, "mesh", <<>>), LAMBDA mesh_data_array :
    Bind(First(mesh_data_array), LAMBDA mesh_data_val :
    Bind(Member(mesh_data_val, "body", <<>>), LAMBDA mesh_data_body_array :
    Bind(First(mesh_data_body_array), LAMBDA mesh_data_body_array_0 :
    Bind(jsonAttribs(Member(mesh_data_val, "attributes", <<>>), 1, <<>>, ""), LAMBDA at :
    Bind(Member(mesh_data_body_array_0, "vertexsize", 0), LAMBDA vertexSizeInFloat :
    Bind(Member(mesh_data_body_array_0, "vertices", <<>>), LAMBDA vertices :
    Bind(Member(mesh_data_body_array_0, "indexnum", 0), LAMBDA indexnum :
    Bind(Member(mesh_data_body_array_0, "indices", <<>>), LAMBDA indices_val_array :
    Bind([NewMeshData EXCEPT !.attribCount = Len(at.attribs), !.attribs = at.attribs,
                             !.vertex = Resized(vertices, vertexSizeInFloat)], LAMBDA m0 :
    Bind(Resized(indices_val_array, indexnum), LAMBDA indices :
    Bind(calculateAABB(m0.vertex, getPerVertexSize(m0), indices), LAMBDA box :
    [ret |-> TRUE, self |-> self,
     meshDatas |-> <<[m0 EXCEPT !.subMeshIndices = <<indices>>, !.subMeshAABB = <<box>>]>>,
     fault |-> IF mesh_data_array = <<>> \/ mesh_data_body_array = <<>>
                  \/ Missing(mesh_data_val, {"attributes"})
                  \/ Missing(mesh_data_body_array_0,
                             {"vertexsize", "vertices", "indexnum", "indices"})
               THEN "assert"
               ELSE IF Len(vertices) > vertexSizeInFloat \/ Len(indices_val_array) > indexnum
               THEN "oob_write"
               ELSE IF box.indeterminate THEN Worse(at.fault, "oob_read") ELSE at.fault,
     frees |-> <<0>>]))))))))))))

\* _jsonReader["mesh"][0] holds "vertex"[0] (vertexsize, vertices) and the
\* array "submesh" (indexnum, indices).  No call of the file reaches this
\* loader: loadMeshDatas sends versions "1.2" and "0.2" to loadMeshDataJson_0_1.
RECURSIVE jsonSubmeshes(_, _, _, _)
jsonSubmeshes(mesh_submesh_array, i, meshData, fault) ==
    IF i > Len(mesh_submesh_array) THEN [meshData |-> meshData, fault |-> fault]
    ELSE
    Bind(mesh_submesh_array[i], LAMBDA mesh_submesh_val :
    Bind(Member(mesh_submesh_val, "indices", <<>>), LAMBDA indices_val_array :
    Bind(Resized(indices_val_array, Member(mesh_submesh_val, "indexnum", 0)),
         LAMBDA indices :
    Bind(calculateAABB(meshData.vertex, getPerVertexSize(meshData), indices), LAMBDA box :
    jsonSubmeshes(mesh_submesh_array, i + 1,
        [meshData EXCEPT !.subMeshIndices = Append(@, indices),
                         !.subMeshAABB = Append(@, box)],
        IF Missing(mesh_submesh_val, {"indexnum", "indices"}) THEN Worse(fault, "assert")
        ELSE IF Len(indices_val_array) > Member(mesh_submesh_val, "indexnum", 0)
        THEN Worse(fault, "oob_write")
        ELSE IF box.indeterminate THEN Worse(fault, "oob_read") ELSE fault)))))

loadMeshDataJson_0_2(self) ==
    Bind(Member(self._jsonReader, "mesh", <<>>), LAMBDA mesh_array :
    Bind(First(mesh_array), LAMBDA mesh_array_0 :
    Bind(jsonAttribs(Member(mesh_array_0, "attributes", <<>>), 1, <<>>, ""), LAMBDA at :
    Bind(Member(mesh_array_0, "vertex", <<>>), LAMBDA mesh_data_vertex :
    Bind(First(mesh_data_vertex), LAMBDA mesh_data_vertex_0 :
    Bind(Member(mesh_data_vertex_0, "vertexsize", 0), LAMBDA vertexSizeInFloat :
    Bind(Member(mesh_data_vertex_0, "vertices", <<>>), LAMBDA vertices :
    Bind(jsonSubmeshes(Member(mesh_array_0, "submesh", <<>>), 1,
             [NewMeshData EXCEPT !.attribCount = Len(at.attribs), !.attribs = at.attribs,
                                 !.vertex = Resized(vertices, vertexSizeInFloat)],
             IF mesh_array = <<>> \/ mesh_data_vertex = <<>>
                \/ Missing(mesh_array_0, {"attributes", "vertex", "submesh"})
                \/ Missing(mesh_data_vertex_0, {"vertexsize", "vertices"})
             THEN "assert"
             ELSE IF Len(vertices) > vertexSizeInFloat THEN "oob_write"
             ELSE at.fault), LAMBDA parts :
    [ret |-> TRUE, self |-> self, meshDatas |-> <<parts.meshData>>,
     fault |-> parts.fault, frees |-> <<0>>]))))))))

loadMeshDatas(self) ==
    IF self._isBinary
    THEN IF self._version = "0.1" \/ self._version = "0.2"
         THEN loadMeshDatasBinary_0_1(self)
         ELSE loadMeshDatasBinary(self)
    ELSE IF self._version = "1.2" \/ self._version = "0.2"
         THEN loadMeshDataJson_0_1(self)
         ELSE loadMeshDatasJson(self)

(***************************************************************************)
(* SkinData: the skin bones and, after them in one index space, the node   *)
(* bones (spec sections 3 and 4.6).  A matrix is its 16 floats.            *)
(***************************************************************************)
Identity == <<1, 0, 0, 0, 0, 1, 0, 0, 0, 0, 1, 0, 0, 0, 0, 1>>

NewSkinData ==
    [skinBoneNames |-> <<>>, nodeBoneNames |-> <<>>, inverseBindPoseMatrices |-> <<>>,
     skinBoneOriginMatrices |-> <<>>, nodeBoneOriginMatrices |-> <<>>,
     boneChild |-> <<>>, rootBoneIndex |-> -1]

\* The position (from 0) of the first name of names that is name, -1 when none is.
IndexOf(names, name) ==
    IF \E k \in 1..Len(names) : names[k] = name
    THEN (CHOOSE k \in 1..Len(names) :
              names[k] = name /\ \A j \in 1..(k - 1) : names[j] /= name) - 1
    ELSE -1

addSkinBoneNames(data, name) ==
    IF IndexOf(data.skinBoneNames, name) >= 0 THEN data
    ELSE [data EXCEPT !.skinBoneNames = Append(@, name)]

addNodeBoneNames(data, name) ==
    IF IndexOf(data.nodeBoneNames, name) >= 0 THEN data
    ELSE [data EXCEPT !.nodeBoneNames = Append(@, name)]

getSkinBoneNameIndex(data, name) == IndexOf(data.skinBoneNames, name)

getBoneNameIndex(data, name) ==
    IF IndexOf(data.skinBoneNames, name) >= 0
    THEN IndexOf(data.skinBoneNames, name)
    ELSE IF IndexOf(data.nodeBoneNames, name) >= 0
    THEN Len(data.skinBoneNames) + IndexOf(data.nodeBoneNames, name)
    ELSE -1

\* map[parent].emplace_back(child)
AddChild(map, parent, child) ==
    IF parent \in DOMAIN map THEN [map EXCEPT ![parent] = Append(@, child)]
    ELSE [k \in DOMAIN map \cup {parent} |-> IF k = parent THEN <<child>> ELSE map[k]]

\* A Mat4 (the identity when constructed) with the floats of a JSON array
\* written over its first elements.
MatOf(array) == [k \in 1..16 |-> IF k <= Len(array) THEN array[k] ELSE Identity[k]]

\* Indexed with the name looked up before it is added to the node bones.
IndexedUnadded(data, name) ==
    [index |-> getBoneNameIndex(data, name), skindata |-> data,
     added |-> getSkinBoneNameIndex(data, name) < 0]

\* The name looked up among the skin bones and, when it is none, added to the
\* node bones: the bone's index and the SkinData after it.
Indexed(data, name) ==
    IF getSkinBoneNameIndex(data, name) >= 0
    THEN [index |-> getSkinBoneNameIndex(data, name), skindata |-> data,
          added |-> FALSE]
    ELSE Bind(addNodeBoneNames(data, name), LAMBDA s :
         [index |-> getBoneNameIndex(s, name), skindata |-> s, added |-> TRUE])

(***************************************************************************)
(* getChildMap: the recursive descent over the bone tree of a JSON skin.   *)
(***************************************************************************)
RECURSIVE getChildMap(_, _, _)
RECURSIVE getChildMapChildren(_, _, _, _, _)

getChildMap(skinData, val, fault) ==
    Bind(MatOf(Member(val, "tansform", <<>>)), LAMBDA transform :
    Bind(Indexed(skinData, Member(val, "id", "")), LAMBDA parent :
    Bind(IF parent.added
         THEN [parent.skindata EXCEPT !.nodeBoneOriginMatrices = Append(@, transform)]
         ELSE IF parent.index < Len(skinData.skinBoneNames)
         THEN [skinData EXCEPT !.skinBoneOriginMatrices[parent.index + 1] = transform]
         ELSE skinData, LAMBDA s1 :
    Bind([s1 EXCEPT !.rootBoneIndex = IF @ < 0 THEN parent.index ELSE @], LAMBDA s2 :
    Bind(IF Missing(val, {"tansform", "id"}) THEN Worse(fault, "assert") ELSE fault,
         LAMBDA f1 :
    IF ~HasMember(val, "children") THEN [skinData |-> s2, fault |-> f1]
    ELSE getChildMapChildren(s2, val.children, 1, parent.index, f1))))))

getChildMapChildren(skinData, children, i, parent_name_index, fault) ==
    IF i > Len(children) THEN [skinData |-> skinData, fault |-> fault]
    ELSE Bind(Indexed(skinData, Member(children[i], "id", "")), LAMBDA child :
         Bind(getChildMap([child.skindata EXCEPT !.boneChild =
                               AddChild(@, parent_name_index, child.index)],
                          children[i], fault), LAMBDA r :
         getChildMapChildren(r.skinData, children, i + 1, parent_name_index, r.fault)))

(***************************************************************************)
(* loadSkinDataJson: skin[0] holds the bones, skin[1] the bone tree.       *)
(***************************************************************************)
NoSkin(self, skin, fault) == [ret |-> FALSE, self |-> self, skin |-> skin, fault |-> fault]

Nth(array, i) == IF i <= Len(array) THEN array[i] ELSE [none |-> TRUE]

RECURSIVE jsonBones(_, _, _, _)
jsonBones(skin_data_bones, i, skin, fault) ==
    IF i > Len(skin_data_bones) THEN [skin |-> skin, fault |-> fault]
    ELSE Bind(skin_data_bones[i], LAMBDA skin_data_bone :
         Bind(addSkinBoneNames(skin, Member(skin_data_bone, "node", "")), LAMBDA s1 :
         jsonBones(skin_data_bones, i + 1,
             [s1 EXCEPT !.inverseBindPoseMatrices =
                 Append(@, MatOf(Member(skin_data_bone, "bindshape", <<>>)))],
             IF Missing(skin_data_bone, {"node", "bindshape"})
             THEN Worse(fault, "assert") ELSE fault)))

loadSkinDataJson(self, skin) ==
    IF ~HasMember(self._jsonReader, "skin") THEN NoSkin(self, skin, "")
    ELSE
    Bind(self._jsonReader.skin, LAMBDA skin_data_array :
    Bind(Nth(skin_data_array, 1), LAMBDA skin_data_array_val_0 :
    IF ~HasMember(skin_data_array_val_0, "bones")
    THEN NoSkin(self, skin, IF Len(skin_data_array) < 1 THEN "assert" ELSE "")
    ELSE
    Bind(jsonBones(skin_data_array_val_0.bones, 1, skin, ""), LAMBDA bones :
    Bind(getChildMap([bones.skin EXCEPT !.skinBoneOriginMatrices =
                          [k \in 1..Len(bones.skin.skinBoneNames) |-> Identity]],
                     Nth(skin_data_array, 2),
                     IF Len(skin_data_array) < 2 THEN "assert" ELSE bones.fault),
         LAMBDA map :
    [ret |-> TRUE, self |-> self, skin |-> map.skinData, fault |-> map.fault]))))

(***************************************************************************)
(* loadSkinDataBinary.  linkNum is read without a check: after a short     *)
(* read the loop runs over whatever the variable held (garbage).           *)
(***************************************************************************)
RECURSIVE readBones(_, _, _, _)
readBones(reader, i, boneNum, skin) ==
    IF i >= boneNum THEN [ok |-> TRUE, reader |-> reader, skin |-> skin]
    ELSE Bind(readString(reader), LAMBDA skinBoneName :
         Bind([skin EXCEPT !.skinBoneNames = Append(@, skinBoneName.str)], LAMBDA s1 :
         Bind(readMatrix(skinBoneName.reader), LAMBDA bindpos :
         IF ~bindpos.ok THEN [ok |-> FALSE, reader |-> bindpos.reader, skin |-> s1]
         ELSE readBones(bindpos.reader, i + 1, boneNum,
                  [s1 EXCEPT !.inverseBindPoseMatrices = Append(@, bindpos.m)]))))

\* The 16 floats of a buffer after a readMatrix into it that may have been short.
Overwritten(old, matrix) ==
    [k \in 1..16 |-> IF k <= Len(matrix.m) THEN matrix.m[k] ELSE old[k]]

\* Placed with every name taken for the first skin bone.
PlacedFirst(skin, name, matrix) ==
    [index |-> 0, skin |-> [skin EXCEPT !.skinBoneOriginMatrices[1] = matrix]]

\* The bone of a name, its origin matrix stored: a skin bone gets the matrix
\* at its index, any other name becomes a node bone.
Placed(skin, name, matrix) ==
    Bind(Indexed(skin, name), LAMBDA bone :
    [index |-> bone.index,
     skin |-> IF bone.added
              THEN [bone.skindata EXCEPT !.nodeBoneOriginMatrices = Append(@, matrix)]
              ELSE [skin EXCEPT !.skinBoneOriginMatrices[bone.index + 1] = matrix]])

RECURSIVE readLinks(_, _, _, _)
readLinks(reader, i, linkNum, skin) ==
    IF i >= linkNum THEN [ok |-> TRUE, reader |-> reader, skin |-> skin]
    ELSE Bind(readString(reader), LAMBDA id :
         Bind(readString(id.reader), LAMBDA parentid :
         Bind(readMatrix(parentid.reader), LAMBDA transform :
         IF ~transform.ok THEN [ok |-> FALSE, reader |-> transform.reader, skin |-> skin]
         ELSE Bind(Placed(skin, id.str, transform.m), LAMBDA child :
              Bind(Indexed(child.skin, parentid.str), LAMBDA parent :
              readLinks(transform.reader, i + 1, linkNum,
                  [parent.skindata EXCEPT !.boneChild =
                      AddChild(@, parent.index, child.index)]))))))

loadSkinDataBinary(self, skin, garbage) ==
    Bind(seekToFirstType(self, BUNDLE_TYPE_MESHSKIN, ""), LAMBDA sk :
    IF sk.ref = 0 THEN NoSkin(sk.self, skin, sk.fault)
    ELSE
    Bind(readString(sk.self._binaryReader), LAMBDA boneName :
    Bind(readMatrix(boneName.reader), LAMBDA bindShape :
    IF ~bindShape.ok THEN NoSkin(At(sk.self, bindShape.reader), skin, "")
    ELSE
    Bind(read(bindShape.reader, 4, 1), LAMBDA boneNum :
    IF boneNum.n /= 1 THEN NoSkin(At(sk.self, boneNum.reader), skin, "")
    ELSE IF boneNum.elems[1] = 0 THEN NoSkin(At(sk.self, boneNum.reader), skin, "")
    ELSE
    Bind(readBones(boneNum.reader, 0, boneNum.elems[1], skin), LAMBDA bones :
    IF ~bones.ok THEN NoSkin(At(sk.self, bones.reader), bones.skin, "")
    ELSE
    Bind(readString(bones.reader), LAMBDA rootName :
    Bind(readMatrix(rootName.reader), LAMBDA rootShape :
    Bind(Placed([bones.skin EXCEPT !.skinBoneOriginMatrices =
                     [k \in 1..boneNum.elems[1] |-> Identity]],
                rootName.str, Overwritten(bindShape.m, rootShape)), LAMBDA root :
    Bind(read(rootShape.reader, 4, 1), LAMBDA linkNum :
    Bind(readLinks(linkNum.reader, 0,
                   IF linkNum.n = 1 THEN linkNum.elems[1] ELSE garbage,
                   [root.skin EXCEPT !.rootBoneIndex = root.index]), LAMBDA links :
    [ret |-> links.ok, self |-> At(sk.self, links.reader), skin |-> links.skin,
     fault |-> IF linkNum.n = 1 THEN "" ELSE "uninitialized"]))))))))))

loadSkinData(self, garbage) ==
    IF self._isBinary THEN loadSkinDataBinary(self, NewSkinData, garbage)
    ELSE loadSkinDataJson(self, NewSkinData)

(***************************************************************************)
(* NodeData trees.  A NodeData* is a record; nullptr is NullNode.          *)
(***************************************************************************)
NullNode ==
    [isNull |-> TRUE, id |-> "", transform |-> <<>>, modelNodeDatas |-> <<>>,
     children |-> <<>>]
NewNodeData ==
    [isNull |-> FALSE, id |-> "", transform |-> Identity, modelNodeDatas |-> <<>>,
     children |-> <<>>]
NewModelData ==
    [subMeshId |-> "", materialId |-> "", bones |-> <<>>, invBindPose |-> <<>>]
NewNodeDatas == [skeleton |-> <<>>, nodes |-> <<>>]

\* Versions "0.1" to "0.6": a skinned node and the node of a single-node
\* bundle get the identity for their transform.
SetTransform(version, isSkin, singleSprite, transform) ==
    IF version \in {"0.1", "0.2", "0.3", "0.4", "0.5", "0.6"} /\ (isSkin \/ singleSprite)
    THEN Identity
    ELSE transform

(***************************************************************************)
(* parseNodesRecursivelyJson and loadNodesJson.                            *)
(***************************************************************************)
RECURSIVE jsonNodeBones(_, _, _, _)
jsonNodeBones(bones, j, modelnodedata, fault) ==
    IF j > Len(bones) THEN [ok |-> TRUE, modelnodedata |-> modelnodedata, fault |-> fault]
    ELSE IF ~HasMember(bones[j], "node")
    THEN [ok |-> FALSE, modelnodedata |-> modelnodedata, fault |-> fault]
    ELSE jsonNodeBones(bones, j + 1,
             [modelnodedata EXCEPT
                 !.bones = Append(@, bones[j].node),
                 !.invBindPose = Append(@, MatOf(Member(bones[j], "transform", <<>>)))],
             IF Missing(bones[j], {"transform"}) THEN Worse(fault, "assert") ELSE fault)

RECURSIVE jsonNodeParts(_, _, _, _, _)
jsonNodeParts(parts, i, nodedata, isSkin, fault) ==
    IF i > Len(parts)
    THEN [ok |-> TRUE, nodedata |-> nodedata, isSkin |-> isSkin, fault |-> fault]
    ELSE
    Bind(parts[i], LAMBDA part :
    Bind([NewModelData EXCEPT !.subMeshId = Member(part, "meshpartid", ""),
                              !.materialId = Member(part, "materialid", "")],
         LAMBDA modelnodedata :
    Bind(IF Missing(part, {"meshpartid", "materialid"}) THEN Worse(fault, "assert")
         ELSE fault, LAMBDA f1 :
    IF modelnodedata.subMeshId = "" \/ modelnodedata.materialId = ""
    THEN [ok |-> FALSE, nodedata |-> nodedata, isSkin |-> isSkin, fault |-> f1]
    ELSE
    Bind(jsonNodeBones(Member(part, "bones", <<>>), 1, modelnodedata, f1), LAMBDA bones :
    IF ~bones.ok
    THEN [ok |-> FALSE, nodedata |-> nodedata, isSkin |-> isSkin, fault |-> bones.fault]
    ELSE jsonNodeParts(parts, i + 1,
             [nodedata EXCEPT !.modelNodeDatas = Append(@, bones.modelnodedata)],
             isSkin \/ Len(Member(part, "bones", <<>>)) > 0,
             bones.fault)))))

RECURSIVE parseNodesRecursivelyJson(_, _, _)
RECURSIVE jsonNodeChildren(_, _, _, _, _, _)

parseNodesRecursivelyJson(self, jvalue, singleSprite) ==
    Bind(MatOf(Member(jvalue, "transform", <<>>)), LAMBDA transform :
    Bind(jsonNodeParts(Member(jvalue, "parts", <<>>), 1,
                       [NewNodeData EXCEPT !.id = Member(jvalue, "id", ""),
                                           !.transform = transform],
                       FALSE,
                       IF Missing(jvalue, {"id", "transform"}) THEN "assert" ELSE ""),
         LAMBDA parts :
    IF ~parts.ok THEN [node |-> NullNode, fault |-> parts.fault]
    ELSE jsonNodeChildren(self, Member(jvalue, "children", <<>>), 1, singleSprite,
             [parts.nodedata EXCEPT !.transform =
                 SetTransform(self._version, parts.isSkin, singleSprite, transform)],
             parts.fault)))

jsonNodeChildren(self, children, i, singleSprite, nodedata, fault) ==
    IF i > Len(children) THEN [node |-> nodedata, fault |-> fault]
    ELSE Bind(parseNodesRecursivelyJson(self, children[i], singleSprite), LAMBDA tempdata :
         jsonNodeChildren(self, children, i + 1, singleSprite,
             [nodedata EXCEPT !.children = Append(@, tempdata.node)],
             Worse(fault, tempdata.fault)))

RECURSIVE jsonNodes(_, _, _, _, _)
jsonNodes(self, nodes, i, datas, fault) ==
    IF i > Len(nodes) THEN [datas |-> datas, fault |-> fault]
    ELSE Bind(parseNodesRecursivelyJson(self, nodes[i], Len(nodes) = 1), LAMBDA nodedata :
         jsonNodes(self, nodes, i + 1,
             IF Member(nodes[i], "skeleton", FALSE)
             THEN [datas EXCEPT !.skeleton = Append(@, nodedata.node)]
             ELSE [datas EXCEPT !.nodes = Append(@, nodedata.node)],
             IF Missing(nodes[i], {"id", "skeleton"}) THEN Worse(fault, "assert")
             ELSE Worse(fault, nodedata.fault)))

\* The member "nodes" is an array in every document of the model.
loadNodesJson(self, datas) ==
    IF ~HasMember(self._jsonReader, "nodes")
    THEN [ret |-> FALSE, self |-> self, datas |-> datas, fault |-> ""]
    ELSE Bind(jsonNodes(self, self._jsonReader.nodes, 1, datas, ""), LAMBDA r :
         [ret |-> TRUE, self |-> self, datas |-> r.datas, fault |-> r.fault])

(***************************************************************************)
(* parseNodesRecursivelyBinary and loadNodesBinary.                        *)
(***************************************************************************)
RECURSIVE readNodeBones(_, _, _, _)
readNodeBones(reader, j, bonesSize, modelnodedata) ==
    IF j >= bonesSize THEN [ok |-> TRUE, reader |-> reader, modelnodedata |-> modelnodedata]
    ELSE Bind(readString(reader), LAMBDA name :
         Bind(readMatrix(name.reader), LAMBDA invbindpos :
         IF ~invbindpos.ok
         THEN [ok |-> FALSE, reader |-> invbindpos.reader, modelnodedata |-> modelnodedata]
         ELSE readNodeBones(invbindpos.reader, j + 1, bonesSize,
                  [modelnodedata EXCEPT !.bones = Append(@, name.str),
                                        !.invBindPose = Append(@, invbindpos.m)])))

RECURSIVE readTextureIndices(_, _, _)
readTextureIndices(reader, k, textureIndexSize) ==
    IF k >= textureIndexSize THEN [ok |-> TRUE, reader |-> reader]
    ELSE Bind(read(reader, 4, 1), LAMBDA index :
         IF index.n /= 1 THEN [ok |-> FALSE, reader |-> index.reader]
         ELSE readTextureIndices(index.reader, k + 1, textureIndexSize))

RECURSIVE readUvMapping(_, _, _)
readUvMapping(reader, j, uvMapping) ==
    IF j >= uvMapping THEN [ok |-> TRUE, reader |-> reader]
    ELSE Bind(read(reader, 4, 1), LAMBDA textureIndexSize :
         IF textureIndexSize.n /= 1 THEN [ok |-> FALSE, reader |-> textureIndexSize.reader]
         ELSE Bind(readTextureIndices(textureIndexSize.reader, 0, textureIndexSize.elems[1]),
                   LAMBDA indices :
              IF ~indices.ok THEN indices
              ELSE readUvMapping(indices.reader, j + 1, uvMapping)))

NoParts(reader, nodedata, isSkin) ==
    [ok |-> FALSE, reader |-> reader, nodedata |-> nodedata, isSkin |-> isSkin]

RECURSIVE readNodeParts(_, _, _, _, _)
readNodeParts(reader, i, partsSize, nodedata, isSkin) ==
    IF i >= partsSize
    THEN [ok |-> TRUE, reader |-> reader, nodedata |-> nodedata, isSkin |-> isSkin]
    ELSE
    Bind(readString(reader), LAMBDA subMeshId :
    Bind(readString(subMeshId.reader), LAMBDA materialId :
    IF subMeshId.str = "" \/ materialId.str = ""
    THEN NoParts(materialId.reader, nodedata, isSkin)
    ELSE
    Bind(read(materialId.reader, 4, 1), LAMBDA bonesSize :
    IF bonesSize.n /= 1 THEN NoParts(bonesSize.reader, nodedata, isSkin)
    ELSE
    Bind(readNodeBones(bonesSize.reader, 0, bonesSize.elems[1],
                       [NewModelData EXCEPT !.subMeshId = subMeshId.str,
                                            !.materialId = materialId.str]), LAMBDA bones :
    IF ~bones.ok THEN NoParts(bones.reader, nodedata, isSkin)
    ELSE
    Bind(read(bones.reader, 4, 1), LAMBDA uvMapping :
    IF uvMapping.n /= 1 THEN NoParts(uvMapping.reader, nodedata, isSkin)
    ELSE
    Bind(readUvMapping(uvMapping.reader, 0, uvMapping.elems[1]), LAMBDA uv :
    IF ~uv.ok THEN NoParts(uv.reader, nodedata, isSkin)
    ELSE readNodeParts(uv.reader, i + 1, partsSize,
             [nodedata EXCEPT !.modelNodeDatas = Append(@, bones.modelnodedata)],
             isSkin \/ bonesSize.elems[1] > 0)))))))

\* What a call leaves: the node (or nullptr), the reader and the caller's
\* skeleton flag, which the call has by reference.
Parsed(node, reader, skeleton) == [node |-> node, reader |-> reader, skeleton |-> skeleton]

RECURSIVE parseNodesRecursivelyBinary(_, _, _, _)
RECURSIVE readNodeChildren(_, _, _, _, _, _, _)

parseNodesRecursivelyBinary(reader, version, skeleton, singleSprite) ==
    Bind(readString(reader), LAMBDA id :
    Bind(read(id.reader, 1, 1), LAMBDA skeleton_ :
    IF skeleton_.n /= 1 THEN Parsed(NullNode, skeleton_.reader, skeleton)
    ELSE
    Bind(skeleton \/ skeleton_.elems[1] /= 0, LAMBDA skeleton1 :
    Bind(readMatrix(skeleton_.reader), LAMBDA transform :
    IF ~transform.ok THEN Parsed(NullNode, transform.reader, skeleton1)
    ELSE
    Bind(read(transform.reader, 4, 1), LAMBDA partsSize :
    IF partsSize.n /= 1 THEN Parsed(NullNode, partsSize.reader, skeleton1)
    ELSE
    Bind(readNodeParts(partsSize.reader, 0, partsSize.elems[1],
                       [NewNodeData EXCEPT !.id = id.str], FALSE), LAMBDA parts :
    IF ~parts.ok THEN Parsed(NullNode, parts.reader, skeleton1)
    ELSE
    Bind(read(parts.reader, 4, 1), LAMBDA childrenSize :
    IF childrenSize.n /= 1 THEN Parsed(NullNode, childrenSize.reader, skeleton1)
    ELSE readNodeChildren(childrenSize.reader, version, 0, childrenSize.elems[1],
             [parts.nodedata EXCEPT !.transform =
                 SetTransform(version, parts.isSkin, singleSprite, transform.m)],
             skeleton1, singleSprite))))))))

readNodeChildren(reader, version, i, childrenSize, nodedata, skeleton, singleSprite) ==
    IF i >= childrenSize THEN Parsed(nodedata, reader, skeleton)
    ELSE Bind(parseNodesRecursivelyBinary(reader, version, skeleton, singleSprite),
              LAMBDA tempdata :
         readNodeChildren(tempdata.reader, version, i + 1, childrenSize,
             [nodedata EXCEPT !.children = Append(@, tempdata.node)],
             tempdata.skeleton, singleSprite))

RECURSIVE readNodes(_, _, _, _, _)
readNodes(reader, version, i, nodeSize, datas) ==
    IF i >= nodeSize THEN [reader |-> reader, datas |-> datas]
    ELSE Bind(parseNodesRecursivelyBinary(reader, version, FALSE, nodeSize = 1),
              LAMBDA nodedata :
         readNodes(nodedata.reader, version, i + 1, nodeSize,
             IF nodedata.skeleton
             THEN [datas EXCEPT !.skeleton = Append(@, nodedata.node)]
             ELSE [datas EXCEPT !.nodes = Append(@, nodedata.node)]))

loadNodesBinary(self, datas) ==
    Bind(seekToFirstType(self, BUNDLE_TYPE_NODE, ""), LAMBDA sk :
    IF sk.ref = 0 THEN [ret |-> FALSE, self |-> sk.self, datas |-> datas, fault |-> sk.fault]
    ELSE Bind(read(sk.self._binaryReader, 4, 1), LAMBDA nodeSize :
         IF nodeSize.n /= 1
         THEN [ret |-> FALSE, self |-> At(sk.self, nodeSize.reader), datas |-> datas,
               fault |-> ""]
         ELSE Bind(readNodes(nodeSize.reader, self._version, 0, nodeSize.elems[1], datas),
                   LAMBDA r :
              [ret |-> TRUE, self |-> At(sk.self, r.reader), datas |-> r.datas,
               fault |-> ""])))

(***************************************************************************)
(* loadNodes.  Versions "0.1", "1.2" and "0.2" have no node section: the   *)
(* skeleton is built from the skin data, one NodeData a bone, linked as    *)
(* boneChild tells.  The call returns true on every path.                  *)
(***************************************************************************)
BoneCount(skinData) == Len(skinData.skinBoneNames) + Len(skinData.nodeBoneNames)

BoneId(skinData, index) ==
    IF index < Len(skinData.skinBoneNames) THEN skinData.skinBoneNames[index + 1]
    ELSE skinData.nodeBoneNames[index - Len(skinData.skinBoneNames) + 1]

\* A node bone that came in as the parent of a link has no origin matrix.
HasOrigin(skinData, index) ==
    IF index < Len(skinData.skinBoneNames)
    THEN index < Len(skinData.skinBoneOriginMatrices)
    ELSE index - Len(skinData.skinBoneNames) < Len(skinData.nodeBoneOriginMatrices)

BoneTransform(skinData, index) ==
    IF ~HasOrigin(skinData, index) THEN Identity
    ELSE IF index < Len(skinData.skinBoneNames)
    THEN skinData.skinBoneOriginMatrices[index + 1]
    ELSE skinData.nodeBoneOriginMatrices[index - Len(skinData.skinBoneNames) + 1]

\* The NodeData of a bone with the NodeDatas of its children under it, as deep
\* as there are bones (links that close a cycle are cut there).
RECURSIVE BoneNode(_, _, _)
BoneNode(skinData, index, depth) ==
    [NewNodeData EXCEPT
        !.id = BoneId(skinData, index),
        !.transform = BoneTransform(skinData, index),
        !.children =
            IF depth = 0 \/ index \notin DOMAIN skinData.boneChild THEN <<>>
            ELSE [k \in 1..Len(skinData.boneChild[index]) |->
                     BoneNode(skinData, skinData.boneChild[index][k], depth - 1)]]

ModelNode(bones, invBindPose) ==
    [NewNodeData EXCEPT !.modelNodeDatas =
        <<[NewModelData EXCEPT !.bones = bones, !.invBindPose = invBindPose]>>]

\* The NodeData pointers loadNodes hands out: nodeDatas[child] to the children
\* list of nodeDatas[parent] for every entry of boneChild, nodeDatas[rootBoneIndex]
\* to the skeleton list.
NoPointers == [children |-> <<>>, top |-> <<>>]
NodePointers(skinData) ==
    [children |-> skinData.boneChild, top |-> <<skinData.rootBoneIndex>>]

loadNodes(self, datas, garbage) ==
    IF self._version = "0.1" \/ self._version = "1.2" \/ self._version = "0.2"
    THEN Bind(loadSkinData(self, garbage), LAMBDA skin :
         IF ~skin.ret
         THEN [ret |-> TRUE, self |-> skin.self,
               datas |-> [datas EXCEPT !.nodes = Append(@, ModelNode(<<>>, <<>>))],
               pointers |-> NoPointers,
               fault |-> skin.fault]
         ELSE Bind(skin.skin, LAMBDA skinData :
              [ret |-> TRUE, self |-> skin.self,
               datas |-> [datas EXCEPT
                   !.skeleton = Append(@, BoneNode(skinData, skinData.rootBoneIndex,
                                                   BoneCount(skinData))),
                   !.nodes = Append(@, ModelNode(skinData.skinBoneNames,
                                                 skinData.inverseBindPoseMatrices))],
               pointers |-> NodePointers(skinData),
               fault |-> IF \E index \in 0..(BoneCount(skinData) - 1) :
                                ~HasOrigin(skinData, index)
                         THEN Worse(skin.fault, "oob_read") ELSE skin.fault]))
    ELSE Bind(IF self._isBinary THEN loadNodesBinary(self, datas)
              ELSE loadNodesJson(self, datas), LAMBDA r :
         [ret |-> TRUE, self |-> r.self, datas |-> r.datas, pointers |-> NoPointers,
          fault |-> r.fault])

(***************************************************************************)
(* The texture translators and the material loaders.  A material is        *)
(* [id, textures], a texture [id, filename, type, wrapS, wrapT]; the wrap   *)
(* modes of a texture the legacy loaders build are left as constructed.    *)
(***************************************************************************)
parseSamplerAddressMode(str) ==
    IF str = "REPEAT" THEN Translated("REPEAT")
    ELSE IF str = "CLAMP" THEN Translated("CLAMP_TO_EDGE")
    ELSE Fallback("REPEAT")

TextureUsages ==
    [AMBIENT |-> "Ambient", BUMP |-> "Bump", DIFFUSE |-> "Diffuse", EMISSIVE |-> "Emissive",
     NONE |-> "None", NORMAL |-> "Normal", REFLECTION |-> "Reflection",
     SHININESS |-> "Shininess", SPECULAR |-> "Specular", TRANSPARENCY |-> "Transparency"]

parseGLTextureType(str) ==
    IF str \in DOMAIN TextureUsages THEN Translated(TextureUsages[str])
    ELSE Fallback("Unknown")

NewTextureData ==
    [id |-> "", filename |-> "", type |-> "Unknown", wrapS |-> "unset", wrapT |-> "unset"]
NewMaterialData == [id |-> "", textures |-> <<>>]

\* filename.empty() ? filename : _modelPath + filename
Filename(self, texturePath) ==
    IF texturePath = "" THEN texturePath ELSE self._modelPath \o texturePath

DiffuseTexture(self, texturePath) ==
    [NewTextureData EXCEPT !.filename = Filename(self, texturePath), !.type = "Diffuse"]

\* A count read without a test of the read: the variable keeps its
\* initializer when the read is short.
Unchecked(r, initializer) == IF r.n = 1 THEN r.elems[1] ELSE initializer

Asserted(a, b, c) == IF a.asserted \/ b.asserted \/ c.asserted THEN "assert" ELSE ""

RECURSIVE readTextures(_, _, _, _, _, _)
readTextures(self, reader, j, textureNum, materialData, fault) ==
    IF j >= textureNum
    THEN [ok |-> TRUE, reader |-> reader, materialData |-> materialData, fault |-> fault]
    ELSE
    Bind(readString(reader), LAMBDA id :
    IF id.str = ""
    THEN [ok |-> FALSE, reader |-> id.reader, materialData |-> materialData,
          fault |-> fault]
    ELSE
    Bind(readString(id.reader), LAMBDA texturePath :
    IF texturePath.str = ""
    THEN [ok |-> FALSE, reader |-> texturePath.reader, materialData |-> materialData,
          fault |-> fault]
    ELSE
    Bind(read(texturePath.reader, 4, 4), LAMBDA uvdata :
    Bind(readString(uvdata.reader), LAMBDA type :
    Bind(readString(type.reader), LAMBDA wrapS :
    Bind(readString(wrapS.reader), LAMBDA wrapT :
    Bind(parseGLTextureType(type.str), LAMBDA t :
    Bind(parseSamplerAddressMode(wrapS.str), LAMBDA ws :
    Bind(parseSamplerAddressMode(wrapT.str), LAMBDA wt :
    readTextures(self, wrapT.reader, j + 1, textureNum,
        [materialData EXCEPT !.textures =
            Append(@, [id |-> id.str, filename |-> Filename(self, texturePath.str),
                       type |-> t.value, wrapS |-> ws.value, wrapT |-> wt.value])],
        Worse(fault, Asserted(t, ws, wt))))))))))))

RECURSIVE readMaterials(_, _, _, _, _, _)
readMaterials(self, reader, i, materialnum, materials, fault) ==
    IF i >= materialnum
    THEN [ok |-> TRUE, reader |-> reader, materials |-> materials, fault |-> fault]
    ELSE
    Bind(readString(reader), LAMBDA id :
    Bind(read(id.reader, 4, 14), LAMBDA data :
    Bind(read(data.reader, 4, 1), LAMBDA textureNum :
    Bind(readTextures(self, textureNum.reader, 0, Unchecked(textureNum, 1),
                      [NewMaterialData EXCEPT !.id = id.str], fault), LAMBDA textures :
    IF ~textures.ok
    THEN [ok |-> FALSE, reader |-> textures.reader, materials |-> materials,
          fault |-> textures.fault]
    ELSE readMaterials(self, textures.reader, i + 1, materialnum,
             Append(materials, textures.materialData), textures.fault)))))

NoMaterials(self, fault) ==
    [ret |-> FALSE, self |-> self, materials |-> <<>>, fault |-> fault]

loadMaterialsBinary(self) ==
    Bind(seekToFirstType(self, BUNDLE_TYPE_MATERIAL, ""), LAMBDA sk :
    IF sk.ref = 0 THEN NoMaterials(sk.self, sk.fault)
    ELSE
    Bind(read(sk.self._binaryReader, 4, 1), LAMBDA materialnum :
    Bind(readMaterials(sk.self, materialnum.reader, 0, Unchecked(materialnum, 1), <<>>, ""),
         LAMBDA r :
    [ret |-> r.ok, self |-> At(sk.self, r.reader), materials |-> r.materials,
     fault |-> r.fault])))

loadMaterialsBinary_0_1(self) ==
    Bind(seekToFirstType(self, BUNDLE_TYPE_MATERIAL, ""), LAMBDA sk :
    IF sk.ref = 0 THEN NoMaterials(sk.self, sk.fault)
    ELSE
    Bind(readString(sk.self._binaryReader), LAMBDA texturePath :
    IF texturePath.str = "" THEN NoMaterials(At(sk.self, texturePath.reader), "")
    ELSE [ret |-> TRUE, self |-> At(sk.self, texturePath.reader),
          materials |-> <<[NewMaterialData EXCEPT !.textures =
                               <<DiffuseTexture(sk.self, texturePath.str)>>]>>,
          fault |-> ""]))

\* The loop of loadMaterialsBinary_0_2 failing on an empty texture path, as the
\* other two binary material loaders do.
RECURSIVE readMaterials_0_2Failing(_, _, _, _, _)
readMaterials_0_2Failing(self, reader, i, materialnum, materials) ==
    IF i >= materialnum THEN [reader |-> reader, materials |-> materials, ret |-> TRUE]
    ELSE Bind(readString(reader), LAMBDA texturePath :
         IF texturePath.str = ""
         THEN [reader |-> texturePath.reader, materials |-> materials, ret |-> FALSE]
         ELSE readMaterials_0_2Failing(self, texturePath.reader, i + 1, materialnum,
                  Append(materials,
                         [NewMaterialData EXCEPT !.textures =
                              <<DiffuseTexture(self, texturePath.str)>>])))

\* The loop of loadMaterialsBinary_0_2; an empty texture path ends the call
\* with true.
RECURSIVE readMaterials_0_2(_, _, _, _, _)
readMaterials_0_2(self, reader, i, materialnum, materials) ==
    IF i >= materialnum THEN [reader |-> reader, materials |-> materials, ret |-> TRUE]
    ELSE Bind(readString(reader), LAMBDA texturePath :
         IF texturePath.str = ""
         THEN [reader |-> texturePath.reader, materials |-> materials, ret |-> TRUE]
         ELSE readMaterials_0_2(self, texturePath.reader, i + 1, materialnum,
                  Append(materials,
                         [NewMaterialData EXCEPT !.textures =
                              <<DiffuseTexture(self, texturePath.str)>>])))

loadMaterialsBinary_0_2(self) ==
    Bind(seekToFirstType(self, BUNDLE_TYPE_MATERIAL, ""), LAMBDA sk :
    IF sk.ref = 0 THEN NoMaterials(sk.self, sk.fault)
    ELSE
    Bind(read(sk.self._binaryReader, 4, 1), LAMBDA materialnum :
    Bind(readMaterials_0_2(sk.self, materialnum.reader, 0, Unchecked(materialnum, 1), <<>>),
         LAMBDA r :
    [ret |-> r.ret, self |-> At(sk.self, r.reader), materials |-> r.materials,
     fault |-> ""])))

RECURSIVE jsonTextures(_, _, _, _, _)
jsonTextures(self, texture_array, j, materialData, fault) ==
    IF j > Len(texture_array) THEN [materialData |-> materialData, fault |-> fault]
    ELSE
    Bind(texture_array[j], LAMBDA texture_val :
    Bind(parseGLTextureType(Member(texture_val, "type", "")), LAMBDA t :
    Bind(parseSamplerAddressMode(Member(texture_val, "wrapModeU", "")), LAMBDA ws :
    Bind(parseSamplerAddressMode(Member(texture_val, "wrapModeV", "")), LAMBDA wt :
    jsonTextures(self, texture_array, j + 1,
        [materialData EXCEPT !.textures =
            Append(@, [NewTextureData EXCEPT
                          !.filename = Filename(self, Member(texture_val, "filename", "")),
                          !.type = t.value, !.wrapS = ws.value, !.wrapT = wt.value])],
        IF Missing(texture_val, {"filename", "type", "wrapModeU", "wrapModeV"})
        THEN Worse(fault, "assert") ELSE Worse(fault, Asserted(t, ws, wt)))))))

RECURSIVE jsonMaterials(_, _, _, _, _)
jsonMaterials(self, material_array, i, materials, fault) ==
    IF i > Len(material_array) THEN [materials |-> materials, fault |-> fault]
    ELSE
    Bind(material_array[i], LAMBDA material_val :
    Bind(jsonTextures(self, Member(material_val, "textures", <<>>), 1,
                      [NewMaterialData EXCEPT !.id = Member(material_val, "id", "")],
                      IF Missing(material_val, {"id"}) THEN Worse(fault, "assert")
                      ELSE fault), LAMBDA textures :
    jsonMaterials(self, material_array, i + 1, Append(materials, textures.materialData),
                  textures.fault)))

loadMaterialsJson(self) ==
    IF ~HasMember(self._jsonReader, "materials") THEN NoMaterials(self, "")
    ELSE Bind(jsonMaterials(self, self._jsonReader.materials, 1, <<>>, ""), LAMBDA r :
         [ret |-> TRUE, self |-> self, materials |-> r.materials, fault |-> r.fault])

loadMaterialDataJson_0_1(self) ==
    IF ~HasMember(self._jsonReader, "material") THEN NoMaterials(self, "")
    ELSE
    Bind(self._jsonReader.material, LAMBDA material_data_array :
    IF Len(material_data_array) = 0 \/ ~HasMember(material_data_array[1], "base")
    THEN [ret |-> TRUE, self |-> self, materials |-> <<>>, fault |-> ""]
    ELSE
    Bind(First(material_data_array[1].base), LAMBDA material_data_base_array_0 :
    [ret |-> TRUE, self |-> self,
     materials |-> <<[NewMaterialData EXCEPT !.textures =
                          <<DiffuseTexture(self, Member(material_data_base_array_0,
                                                        "filename", ""))>>]>>,
     fault |-> IF Missing(material_data_base_array_0, {"filename"}) THEN "assert"
               ELSE ""]))

\* One material takes the textures of every entry of the array.
RECURSIVE jsonTextures_0_2(_, _, _, _, _)
jsonTextures_0_2(self, material_array, i, materialData, fault) ==
    IF i > Len(material_array) THEN [materialData |-> materialData, fault |-> fault]
    ELSE jsonTextures_0_2(self, material_array, i + 1,
             [materialData EXCEPT !.textures =
                 Append(@, DiffuseTexture(self, Member(material_array[i], "textures", "")))],
             IF Missing(material_array[i], {"textures"}) THEN Worse(fault, "assert")
             ELSE fault)

\* loadMaterialDataJson_0_2 building one material for each entry of the array.
loadMaterialDataJson_0_2PerEntry(self) ==
    IF ~HasMember(self._jsonReader, "material") THEN NoMaterials(self, "")
    ELSE [ret |-> TRUE, self |-> self,
          materials |-> [i \in 1..Len(self._jsonReader.material) |->
                            [NewMaterialData EXCEPT !.textures =
                                <<DiffuseTexture(self, Member(self._jsonReader.material[i],
                                                              "textures", ""))>>]],
          fault |-> ""]

loadMaterialDataJson_0_2(self) ==
    IF ~HasMember(self._jsonReader, "material") THEN NoMaterials(self, "")
    ELSE Bind(jsonTextures_0_2(self, self._jsonReader.material, 1, NewMaterialData, ""),
              LAMBDA r :
         [ret |-> TRUE, self |-> self, materials |-> <<r.materialData>>,
          fault |-> r.fault])

loadMaterials(self) ==
    IF self._isBinary
    THEN IF self._version = "0.1" THEN loadMaterialsBinary_0_1(self)
         ELSE IF self._version = "0.2" THEN loadMaterialsBinary_0_2(self)
         ELSE loadMaterialsBinary(self)
    ELSE IF self._version = "1.2" THEN loadMaterialDataJson_0_1(self)
         ELSE IF self._version = "0.2" THEN loadMaterialDataJson_0_2(self)
         ELSE loadMaterialsJson(self)

(***************************************************************************)
(* Animation3DData: the length of the clip and, for each bone, the keys of *)
(* its three channels: a key is [time, key].                               *)
(***************************************************************************)
NewAnimation3DData ==
    [_totalTime |-> 0, _rotationKeys |-> <<>>, _scaleKeys |-> <<>>,
     _translationKeys |-> <<>>]

\* map[boneName].reserve(n): the entry exists from then on.
Reserve(map, boneName) ==
    IF boneName \in DOMAIN map THEN map ELSE map @@ (boneName :> <<>>)
Reserved(anim, boneName) ==
    [anim EXCEPT !._rotationKeys = Reserve(@, boneName),
                 !._scaleKeys = Reserve(@, boneName),
                 !._translationKeys = Reserve(@, boneName)]
\* map[boneName].emplace_back(Key(keytime, val))
AddKey(anim, channel, boneName, keytime, val) ==
    [anim EXCEPT ![channel] =
        [Reserve(@, boneName) EXCEPT ![boneName] = Append(@, [time |-> keytime, key |-> val])]]

AnimKey(version) == IF version = "1.2" \/ version = "0.2" THEN "animation" ELSE "animations"

\* The loop over the array looking for the id: the_index after entry i.
RECURSIVE TheIndex(_, _, _, _)
TheIndex(animation_data_array, id, i, the_index) ==
    IF i >= Len(animation_data_array) THEN the_index
    ELSE TheIndex(animation_data_array, id, i + 1,
                  IF Member(animation_data_array[i + 1], "id", "") = id THEN i
                  ELSE the_index)

jsonChannel(step, bone_name, bone_keyframe, channel, name, count) ==
    IF ~HasMember(bone_keyframe, name) THEN step
    ELSE [anim |-> AddKey(step.anim, channel, bone_name,
                          Member(bone_keyframe, "keytime", 0),
                          Resized(bone_keyframe[name], count)),
          fault |-> IF Missing(bone_keyframe, {"keytime"}) \/ Len(bone_keyframe[name]) < count
                    THEN Worse(step.fault, "assert") ELSE step.fault]

RECURSIVE jsonKeyframes(_, _, _, _)
jsonKeyframes(step, bone_name, bone_keyframes, j) ==
    IF j > Len(bone_keyframes) THEN step
    ELSE jsonKeyframes(
             jsonChannel(
                 jsonChannel(
                     jsonChannel(step, bone_name, bone_keyframes[j],
                                 "_translationKeys", "translation", 3),
                     bone_name, bone_keyframes[j], "_rotationKeys", "rotation", 4),
                 bone_name, bone_keyframes[j], "_scaleKeys", "scale", 3),
             bone_name, bone_keyframes, j + 1)

RECURSIVE jsonAnimBones(_, _, _)
jsonAnimBones(step, bones, i) ==
    IF i > Len(bones) THEN step
    ELSE Bind(Member(bones[i], "boneId", ""), LAMBDA bone_name :
         jsonAnimBones(
             IF HasMember(bones[i], "keyframes")
             THEN jsonKeyframes([anim |-> Reserved(step.anim, bone_name),
                                 fault |-> IF Missing(bones[i], {"boneId"})
                                           THEN Worse(step.fault, "assert") ELSE step.fault],
                                bone_name, bones[i].keyframes, 1)
             ELSE [step EXCEPT !.fault = IF Missing(bones[i], {"boneId"})
                                         THEN Worse(@, "assert") ELSE @],
             bones, i + 1))

NoAnimation(self, anim, fault) ==
    [ret |-> FALSE, self |-> self, anim |-> anim, fault |-> fault]

loadAnimationDataJson(self, id) ==
    IF ~HasMember(self._jsonReader, AnimKey(self._version))
    THEN NoAnimation(self, NewAnimation3DData, "")
    ELSE
    Bind(self._jsonReader[AnimKey(self._version)], LAMBDA animation_data_array :
    IF Len(animation_data_array) = 0 THEN NoAnimation(self, NewAnimation3DData, "")
    ELSE
    Bind(IF id /= "" THEN TheIndex(animation_data_array, id, 0, -1) ELSE 0, LAMBDA the_index :
    IF the_index < 0
    THEN NoAnimation(self, NewAnimation3DData,
                     IF \E i \in 1..Len(animation_data_array) :
                            Missing(animation_data_array[i], {"id"})
                     THEN "assert" ELSE "")
    ELSE
    Bind(animation_data_array[the_index + 1], LAMBDA animation_data_array_val_0 :
    Bind(jsonAnimBones(
             [anim |-> [NewAnimation3DData EXCEPT
                           !._totalTime = Member(animation_data_array_val_0, "length", 0)],
              fault |-> IF Missing(animation_data_array_val_0, {"length", "bones"})
                           \/ (id /= "" /\ \E i \in 1..Len(animation_data_array) :
                                   Missing(animation_data_array[i], {"id"}))
                        THEN "assert" ELSE ""],
             Member(animation_data_array_val_0, "bones", <<>>), 1), LAMBDA r :
    [ret |-> TRUE, self |-> self, anim |-> r.anim, fault |-> r.fault]))))

\* The versions whose animation section is looked up without id, the
\* versions whose section starts with the number of clips, the versions
\* whose keyframes carry no transform flag.
UnnamedVersions == {"0.1", "0.2", "0.3", "0.4"}
CountedVersionsAll == {"0.1", "0.2", "0.3", "0.4"}
CountedVersions == {"0.3", "0.4"}
FlaglessVersions == {"0.1", "0.2", "0.3"}

hasChannelAlways(version, transformFlag, bit) == TRUE
\* hasRotate (bit 0), hasScale (bit 1), hasTranslation (bit 2)
hasChannel(version, transformFlag, bit) ==
    IF version \notin FlaglessVersions THEN (transformFlag \div (2 ^ bit)) % 2 = 1 ELSE TRUE

AnimStep(ok, reader, anim) == [ok |-> ok, reader |-> reader, anim |-> anim]

readChannel(step, present, channel, boneName, keytime, count) ==
    IF ~step.ok \/ ~present THEN step
    ELSE Bind(read(step.reader, 4, count), LAMBDA val :
         IF val.n /= count THEN AnimStep(FALSE, val.reader, step.anim)
         ELSE AnimStep(TRUE, val.reader,
                       AddKey(step.anim, channel, boneName, keytime, val.elems)))

readKeyframe(reader, version, anim, boneName) ==
    Bind(read(reader, 4, 1), LAMBDA keytime :
    IF keytime.n /= 1 THEN AnimStep(FALSE, keytime.reader, anim)
    ELSE
    Bind(IF version \notin FlaglessVersions THEN read(keytime.reader, 1, 1)
         ELSE [n |-> 1, elems |-> <<0>>, reader |-> keytime.reader], LAMBDA transformFlag :
    IF transformFlag.n /= 1 THEN AnimStep(FALSE, transformFlag.reader, anim)
    ELSE
    readChannel(
        readChannel(
            readChannel(AnimStep(TRUE, transformFlag.reader, anim),
                        hasChannel(version, transformFlag.elems[1], 0),
                        "_rotationKeys", boneName, keytime.elems[1], 4),
            hasChannel(version, transformFlag.elems[1], 1),
            "_scaleKeys", boneName, keytime.elems[1], 3),
        hasChannel(version, transformFlag.elems[1], 2),
        "_translationKeys", boneName, keytime.elems[1], 3)))

RECURSIVE readKeyframes(_, _, _, _, _)
readKeyframes(step, version, boneName, j, keyframeNum) ==
    IF ~step.ok \/ j >= keyframeNum THEN step
    ELSE readKeyframes(readKeyframe(step.reader, version, step.anim, boneName),
                       version, boneName, j + 1, keyframeNum)

RECURSIVE readNodeAnimations(_, _, _, _)
readNodeAnimations(step, version, i, nodeAnimationNum) ==
    IF ~step.ok \/ i >= nodeAnimationNum THEN step
    ELSE
    Bind(readString(step.reader), LAMBDA boneName :
    Bind(read(boneName.reader, 4, 1), LAMBDA keyframeNum :
    IF keyframeNum.n /= 1 THEN AnimStep(FALSE, keyframeNum.reader, step.anim)
    ELSE readNodeAnimations(
             readKeyframes(AnimStep(TRUE, keyframeNum.reader,
                                    Reserved(step.anim, boneName.str)),
                           version, boneName.str, 0, keyframeNum.elems[1]),
             version, i + 1, nodeAnimationNum)))

\* One clip: its id, then what the loop body leaves in the Animation3DData.
readAnimation(reader, version) ==
    Bind(readString(reader), LAMBDA animId :
    Bind(read(animId.reader, 4, 1), LAMBDA totalTime :
    IF totalTime.n /= 1
    THEN [animId |-> animId.str,
          step |-> AnimStep(FALSE, totalTime.reader, NewAnimation3DData)]
    ELSE
    Bind([NewAnimation3DData EXCEPT !._totalTime = totalTime.elems[1]], LAMBDA anim :
    Bind(read(totalTime.reader, 4, 1), LAMBDA nodeAnimationNum :
    IF nodeAnimationNum.n /= 1
    THEN [animId |-> animId.str, step |-> AnimStep(FALSE, nodeAnimationNum.reader, anim)]
    ELSE [animId |-> animId.str,
          step |-> readNodeAnimations(AnimStep(TRUE, nodeAnimationNum.reader, anim),
                                      version, 0, nodeAnimationNum.elems[1])]))))

RECURSIVE readAnimations(_, _, _, _, _)
readAnimations(reader, version, id, k, animNum) ==
    IF k >= animNum
    THEN [ret |-> FALSE, reader |-> reader, anim |-> NewAnimation3DData]
    ELSE Bind(readAnimation(reader, version), LAMBDA clip :
         IF ~clip.step.ok
         THEN [ret |-> FALSE, reader |-> clip.step.reader, anim |-> clip.step.anim]
         ELSE IF id = clip.animId \/ id = ""
         THEN [ret |-> TRUE, reader |-> clip.step.reader, anim |-> clip.step.anim]
         ELSE readAnimations(clip.step.reader, version, id, k + 1, animNum))

loadAnimationDataBinary(self, id) ==
    Bind(IF self._version \in UnnamedVersions
         THEN seekToFirstType(self, BUNDLE_TYPE_ANIMATIONS, "")
         ELSE seekToFirstType(self, BUNDLE_TYPE_ANIMATIONS,
                              IF id /= "" THEN id \o "animation" ELSE id), LAMBDA sk :
    IF sk.ref = 0 THEN NoAnimation(sk.self, NewAnimation3DData, sk.fault)
    ELSE
    Bind(IF sk.self._version \in CountedVersions THEN read(sk.self._binaryReader, 4, 1)
         ELSE [n |-> 1, elems |-> <<1>>, reader |-> sk.self._binaryReader], LAMBDA animNum :
    IF animNum.n /= 1 THEN NoAnimation(At(sk.self, animNum.reader), NewAnimation3DData, "")
    ELSE Bind(readAnimations(animNum.reader, sk.self._version, id, 0, animNum.elems[1]),
              LAMBDA r :
         [ret |-> r.ret, self |-> At(sk.self, r.reader), anim |-> r.anim, fault |-> ""])))

loadAnimationData(self, id) ==
    IF self._isBinary THEN loadAnimationDataBinary(self, id)
    ELSE loadAnimationDataJson(self, id)

(***************************************************************************)
(* getTrianglesList: a bundle of its own, load, loadMeshDatas (its result  *)
(* not looked at), and one Vec3 for each index of each sub-mesh.  A float  *)
(* read past the end of the vertex array is whatever is there.  No file of *)
(* the file systems here is a Wavefront model: loadObj finds nothing.      *)
(***************************************************************************)
loadObj(path) == [ret |-> FALSE, meshDatas |-> <<>>]

Float(vertex, at, garbage) == IF at < Len(vertex) THEN vertex[at + 1] ELSE garbage

TrianglesOf(meshData, garbage) ==
    Bind(getPerVertexSize(meshData) \div 4, LAMBDA preVertexSize :
    Flatten([p \in 1..Len(meshData.subMeshIndices) |->
        [k \in 1..Len(meshData.subMeshIndices[p]) |->
            Bind(meshData.subMeshIndices[p][k], LAMBDA ind :
            <<Float(meshData.vertex, ind * preVertexSize, garbage),
              Float(meshData.vertex, ind * preVertexSize + 1, garbage),
              Float(meshData.vertex, ind * preVertexSize + 2, garbage)>>)]]))

ReadsPastEnd(meshData) ==
    \E p \in 1..Len(meshData.subMeshIndices) : \E k \in 1..Len(meshData.subMeshIndices[p]) :
        meshData.subMeshIndices[p][k] * (getPerVertexSize(meshData) \div 4) + 2
            >= Len(meshData.vertex)

Triangles(meshs, garbage, fault) ==
    [trianglesList |-> Flatten([m \in 1..Len(meshs) |-> TrianglesOf(meshs[m], garbage)]),
     fault |-> IF \E m \in 1..Len(meshs) : ReadsPastEnd(meshs[m])
               THEN Worse(fault, "oob_read") ELSE fault]

getTrianglesList(path, garbage) ==
    IF Length(path) <= 4 THEN [trianglesList |-> <<>>, fault |-> ""]
    ELSE IF getFileExtension(path) = ".obj"
    THEN IF ~loadObj(path).ret THEN [trianglesList |-> <<>>, fault |-> ""]
         ELSE Triangles(loadObj(path).meshDatas, garbage, "")
    ELSE Bind(load(NewBundle, path), LAMBDA bundle :
         IF ~bundle.ret THEN [trianglesList |-> <<>>, fault |-> ""]
         ELSE Bind(loadMeshDatas(bundle.self), LAMBDA meshs :
              Triangles(meshs.meshDatas, garbage, meshs.fault)))

(***************************************************************************)
(* The calls.  A call that ran into undefined behaviour or a failed        *)
(* assertion either kills the process or goes on.                          *)
(***************************************************************************)
FileSystems(filesA, filesB, filesT) ==
    {[p \in Paths |-> CASE p = PathA -> a [] p = PathB -> b [] p = PathT -> t
                        [] OTHER -> NoFile] :
        a \in filesA, b \in filesB, t \in filesT}

InitState ==
    /\ _modelPath = NewBundle._modelPath
    /\ _path = NewBundle._path
    /\ _version = NewBundle._version
    /\ _referenceCount = NewBundle._referenceCount
    /\ _references = NewBundle._references
    /\ _isBinary = NewBundle._isBinary
    /\ _binaryBuffer = NewBundle._binaryBuffer
    /\ _jsonBuffer = NewBundle._jsonBuffer
    /\ _binaryReader = NewBundle._binaryReader
    /\ _jsonReader = NewBundle._jsonReader
    /\ meshdatas = <<>>
    /\ skindata = NewSkinData
    /\ nodedatas = NewNodeDatas
    /\ materialdatas = <<>>
    /\ animationdata = NewAnimation3DData
    /\ last = [op |-> "new"]
    /\ aborted = FALSE

Alive == ~aborted /\ last.op /= "destroy"
Crashes(fault) == IF fault = "" THEN {FALSE} ELSE BOOLEAN
Garbage == {0, 1}    \* what an uninitialized unsigned int may hold

Load(path) ==
    /\ Alive
    /\ Bind(load(Bundle, path), LAMBDA r :
       /\ SetBundle(r.self)
       /\ last' = [op |-> "load", path |-> path, ret |-> r.ret,
                   already |-> (path /= EmptyPath /\ _path = path)])
    /\ UNCHANGED <<fs, outVars, aborted>>

Clear ==
    /\ Alive
    /\ SetBundle(clear(Bundle))
    /\ last' = [op |-> "clear"]
    /\ UNCHANGED <<fs, outVars, aborted>>

\* ~Bundle3D(): clear().
Destroy ==
    /\ Alive
    /\ SetBundle(clear(Bundle))
    /\ last' = [op |-> "destroy"]
    /\ UNCHANGED <<fs, outVars, aborted>>

SeekToFirstType(type, id) ==
    /\ Alive
    /\ _isBinary
    /\ Bind(seekToFirstType(Bundle, type, id), LAMBDA r :
       \E crash \in Crashes(r.fault) :
           /\ aborted' = crash
           /\ last' = [op |-> "seekToFirstType", type |-> type, id |-> id,
                       ref |-> r.ref, fault |-> r.fault]
           /\ IF crash THEN UNCHANGED bundleVars ELSE SetBundle(r.self))
    /\ UNCHANGED <<fs, outVars>>

LoadMeshDatas ==
    /\ Alive
    /\ Bind(loadMeshDatas(Bundle), LAMBDA r :
       \E crash \in Crashes(r.fault) :
           /\ aborted' = crash
           /\ last' = [op |-> "loadMeshDatas", ret |-> r.ret, fault |-> r.fault,
                       frees |-> r.frees]
           /\ IF crash THEN UNCHANGED <<bundleVars, meshdatas>>
              ELSE SetBundle(r.self) /\ meshdatas' = r.meshDatas)
    /\ UNCHANGED <<fs, skindata, nodedatas, materialdatas, animationdata>>

LoadSkinData ==
    /\ Alive
    /\ \E garbage \in Garbage :
       Bind(loadSkinData(Bundle, garbage), LAMBDA r :
       \E crash \in Crashes(r.fault) :
           /\ aborted' = crash
           /\ last' = [op |-> "loadSkinData", ret |-> r.ret, fault |-> r.fault]
           /\ IF crash THEN UNCHANGED <<bundleVars, skindata>>
              ELSE SetBundle(r.self) /\ skindata' = r.skin)
    /\ UNCHANGED <<fs, meshdatas, nodedatas, materialdatas, animationdata>>

\* The caller hands in a NodeDatas it has just made or the one it holds from
\* an earlier call: loadNodes appends to what it is given.
MaxEntries == 2      \* a held NodeDatas of more entries is not handed in again

Aggregates ==
    {NewNodeDatas}
        \cup (IF Len(nodedatas.nodes) + Len(nodedatas.skeleton) <= MaxEntries
              THEN {nodedatas} ELSE {})

LoadNodes ==
    /\ Alive
    /\ \E garbage \in Garbage, datas \in Aggregates :
       Bind(loadNodes(Bundle, datas, garbage), LAMBDA r :
       \E crash \in Crashes(r.fault) :
           /\ aborted' = crash
           /\ last' = [op |-> "loadNodes", ret |-> r.ret, fault |-> r.fault,
                       held |-> Len(datas.nodes) + Len(datas.skeleton),
                       pointers |-> r.pointers]
           /\ IF crash THEN UNCHANGED <<bundleVars, nodedatas>>
              ELSE SetBundle(r.self) /\ nodedatas' = r.datas)
    /\ UNCHANGED <<fs, meshdatas, skindata, materialdatas, animationdata>>

LoadMaterials ==
    /\ Alive
    /\ Bind(loadMaterials(Bundle), LAMBDA r :
       \E crash \in Crashes(r.fault) :
           /\ aborted' = crash
           /\ last' = [op |-> "loadMaterials", ret |-> r.ret, fault |-> r.fault]
           /\ IF crash THEN UNCHANGED <<bundleVars, materialdatas>>
              ELSE SetBundle(r.self) /\ materialdatas' = r.materials)
    /\ UNCHANGED <<fs, meshdatas, skindata, nodedatas, animationdata>>

AnimIds == {"", "c", "d"}

LoadAnimationData(id) ==
    /\ Alive
    /\ Bind(loadAnimationData(Bundle, id), LAMBDA r :
       \E crash \in Crashes(r.fault) :
           /\ aborted' = crash
           /\ last' = [op |-> "loadAnimationData", id |-> id, ret |-> r.ret,
                       fault |-> r.fault]
           /\ IF crash THEN UNCHANGED <<bundleVars, animationdata>>
              ELSE SetBundle(r.self) /\ animationdata' = r.anim)
    /\ UNCHANGED <<fs, meshdatas, skindata, nodedatas, materialdatas>>

GetTrianglesList(path) ==
    /\ Alive
    /\ \E garbage \in Garbage :
       Bind(getTrianglesList(path, garbage), LAMBDA r :
       \E crash \in Crashes(r.fault) :
           /\ aborted' = crash
           /\ last' = [op |-> "getTrianglesList", path |-> path, fault |-> r.fault,
                       trianglesList |-> IF crash THEN <<>> ELSE r.trianglesList])
    /\ UNCHANGED <<fs, bundleVars, outVars>>

CalculateAABB(vertex, stride, indices) ==
    /\ Alive
    /\ Bind(calculateAABB(vertex, stride, indices), LAMBDA aabb :
       \E crash \in Crashes(IF aabb.indeterminate THEN "oob_read" ELSE "") :
           /\ aborted' = crash
           /\ last' = [op |-> "calculateAABB", vertex |-> vertex, stride |-> stride,
                       indices |-> indices, aabb |-> aabb])
    /\ UNCHANGED <<fs, bundleVars, outVars>>

(***************************************************************************)
(* Written reference tables and the files of the facade specification.     *)
(***************************************************************************)
RefIds == {<<>>, <<97>>, <<98>>}        \* "", "a", "b"
RefTypes == {BUNDLE_TYPE_MESH, BUNDLE_TYPE_MESHSKIN}
RefOffsets == {16, 300}
RefSet == [id : RefIds, type : RefTypes, offset : RefOffsets]
RefSeqs(n) == UNION {[1..k -> RefSet] : k \in 0..n}

WriteBundle(major, minor, refs, payload) ==
    WriteHeader(major, minor) \o WriteReferences(refs) \o payload

Prefixes(bytes) == {SubSeq(bytes, 1, k) : k \in 0..Len(bytes)}

BaseRefs ==
    << [id |-> <<97>>, type |-> BUNDLE_TYPE_MESH, offset |-> 16],
       [id |-> <<98>>, type |-> BUNDLE_TYPE_MESH, offset |-> 300] >>
BaseBundle == WriteBundle(0, 5, BaseRefs, <<>>)
BadSignature == <<67, 51, 67, 0>> \o SubSeq(BaseBundle, 5, Len(BaseBundle))

Version(str) == [IsArray |-> FALSE, GetString |-> str]
VersionArray == [IsArray |-> TRUE, GetString |-> ""]
DocT == [version |-> Version("0.7")]

FacadeFiles == {BinaryFile(f, <<>>) : f \in Prefixes(BaseBundle) \cup {BadSignature}}
WrittenTables == {BinaryFile(WriteBundle(0, 5, refs, <<>>), refs) : refs \in RefSeqs(MaxRefs)}

Init ==
    /\ fs \in FileSystems(FacadeFiles,
                          {BinaryFile(WriteBundle(0, 5, <<BaseRefs[1]>>, <<>>), <<>>)},
                          {JsonFile(DocT)})
    /\ InitState

Next ==
    \/ \E path \in Paths \cup {EmptyPath} : Load(path)
    \/ Clear
    \/ Destroy
    \/ \E type \in {BUNDLE_TYPE_MESH, BUNDLE_TYPE_NODE}, id \in {"", "b"} :
           SeekToFirstType(type, id)
    \/ LoadMeshDatas
    \/ LoadSkinData
    \/ LoadNodes

Spec == Init /\ [][Next]_vars

InitRefs ==
    /\ fs \in FileSystems(WrittenTables, {NoFile}, {NoFile})
    /\ InitState

NextRefs ==
    \/ Load(PathA)
    \/ \E type \in RefTypes \cup {BUNDLE_TYPE_NODE}, id \in {"", "a", "b"} :
           SeekToFirstType(type, id)

SpecRefs == InitRefs /\ [][NextRefs]_vars

(***************************************************************************)
(* The facade: load, clear and destruction.                                *)
(***************************************************************************)

\* C1: a load of another path with a recognized extension leaves nothing of
\* the load before it: after a load of a .c3t path the bundle holds no binary
\* buffer and no reference table, after a load of a .c3b path no JSON text,
\* and after clear() or destruction none of the three.
C1_PriorStateCleared ==
    /\ (last.op = "load" /\ ~last.already /\ last.path.ext = ".c3t")
           => (_binaryBuffer = <<>> /\ _references.isNull)
    /\ (last.op = "load" /\ ~last.already /\ last.path.ext = ".c3b")
           => ~_jsonBuffer.parses
    /\ last.op \in {"clear", "destroy"}
           => (_binaryBuffer = <<>> /\ _references.isNull /\ ~_jsonBuffer.parses)

\* C2: a load of a .c3b path that returns false leaves the bundle Unloaded:
\* the path empty, the binary buffer cleared and no reference table; and a
\* load that returns true has read the signature, the two version bytes into
\* the version string, the count and that many references.
C2_FailedLoadResets ==
    /\ (last.op = "load" /\ ~last.already /\ last.path.ext = ".c3b" /\ ~last.ret)
           => (_path = EmptyPath /\ _binaryBuffer = <<>> /\ _references.isNull)
    /\ (last.op = "load" /\ ~last.already /\ last.path.ext = ".c3b" /\ last.ret)
           => /\ Len(_binaryBuffer) >= 10
              /\ SubSeq(_binaryBuffer, 1, 4) = <<67, 51, 66, 0>>
              /\ _version = ToString(_binaryBuffer[5]) \o "." \o ToString(_binaryBuffer[6])
              /\ ~_references.isNull
              /\ Len(_references.arr) = _referenceCount

\* C3: load(p) with p the path the bundle has loaded returns true and leaves
\* every field of the bundle (and every aggregate) as it was, whatever calls
\* came in between.
C3_SamePathNoOp ==
    [][(last'.op = "load" /\ _path /= EmptyPath /\ last'.path = _path)
           => (last'.ret /\ UNCHANGED <<bundleVars, outVars>>)]_vars

\* The path is loaded a second time after a section call has moved the cursor
\* from the end of the reference table to a section.
C3_Witness ==
    /\ last.op = "load" /\ last.already /\ last.ret
    /\ _isBinary /\ _binaryReader.position = 16 /\ _referenceCount = 2

(***************************************************************************)
(* The reference table.                                                    *)
(***************************************************************************)
Written == fs[PathA].written
AsRead(ref) == [id |-> ToStr(ref.id), type |-> ref.type, offset |-> ref.offset]
TableRead ==
    /\ last.ret
    /\ _referenceCount = Len(Written)
    /\ ~_references.isNull
    /\ _references.arr = [i \in 1..Len(Written) |-> AsRead(Written[i])]

\* C7: a bundle written with N references, none of an empty id, is read back
\* as a count of N and the N references written, in their order.
C7_RoundTrip ==
    (last.op = "load" /\ ~last.already /\ \A i \in 1..Len(Written) : Written[i].id /= <<>>)
        => TableRead

\* C7 as stated, for every combination of ids.
C7_RoundTripAnyId == (last.op = "load" /\ ~last.already) => TableRead

C7_Witness ==
    /\ last.op = "load" /\ last.ret
    /\ Len(Written) = MaxRefs
    /\ Written[1].id /= Written[2].id /\ Written[1].offset /= Written[2].offset

\* The references seekToFirstType(type, id) may select, and the first of them.
Matching(type, id) ==
    {i \in 1..Len(_references.arr) :
        /\ _references.arr[i].type = type
        /\ id = "" \/ _references.arr[i].id = id}
First_(S) == CHOOSE i \in S : \A j \in S : i <= j

\* C8: seekToFirstType(type, id) selects the first reference of the table of
\* that type and, when id is not empty, of that id; it returns it with the
\* cursor at its offset when the seek to the offset succeeds, and returns
\* not-found with the cursor where it was when nothing is selected or the seek
\* fails, later references of the type and id notwithstanding.
C8_FirstMatch ==
    [][(last'.op = "seekToFirstType" /\ last'.fault = "")
           => IF Matching(last'.type, last'.id) = {}
              THEN last'.ref = 0 /\ UNCHANGED bundleVars
              ELSE Bind(First_(Matching(last'.type, last'.id)), LAMBDA m :
                   IF seek(_binaryReader, _references.arr[m].offset).ok
                   THEN /\ last'.ref = m
                        /\ _binaryReader' = [_binaryReader EXCEPT
                                                !.position = _references.arr[m].offset]
                   ELSE last'.ref = 0 /\ UNCHANGED bundleVars)]_vars

\* Two references of the type sought: the seek to the first fails, the seek
\* to the second would succeed, and the call returned not-found.
C8_Witness ==
    /\ last.op = "seekToFirstType" /\ last.ref = 0 /\ last.fault = ""
    /\ Cardinality(Matching(last.type, last.id)) = 2
    /\ ~seek(_binaryReader, _references.arr[1].offset).ok
    /\ seek(_binaryReader, _references.arr[2].offset).ok

(***************************************************************************)
(* Writing a mesh section (spec section 4.4, current binary format).       *)
(***************************************************************************)
Chars_GL_FLOAT == <<71, 76, 95, 70, 76, 79, 65, 84>>
Chars_VERTEX_ATTRIB_POSITION ==
    <<86, 69, 82, 84, 69, 88, 95, 65, 84, 84, 82, 73, 66, 95, 80, 79, 83, 73, 84, 73, 79, 78>>

WriteAttrib(a) == WriteU32(a.size) \o WriteString(a.type) \o WriteString(a.attribute)
WriteU16s(ix) == Flatten([i \in 1..Len(ix) |-> WriteU16(ix[i])])
WritePart(part, explicitAABB) ==
    WriteString(part.id) \o WriteU32(Len(part.indices)) \o WriteU16s(part.indices)
        \o (IF explicitAABB THEN WriteFloats(part.aabb) ELSE <<>>)
WriteMesh(m, explicitAABB) ==
    WriteU32(Len(m.attributes))
        \o Flatten([i \in 1..Len(m.attributes) |-> WriteAttrib(m.attributes[i])])
        \o WriteU32(Len(m.vertices)) \o WriteFloats(m.vertices)
        \o WriteU32(Len(m.parts))
        \o Flatten([i \in 1..Len(m.parts) |-> WritePart(m.parts[i], explicitAABB)])
WriteMeshes(ms, explicitAABB) ==
    WriteU32(Len(ms)) \o Flatten([i \in 1..Len(ms) |-> WriteMesh(ms[i], explicitAABB)])

\* A bundle of one section: the header, one reference to the section, the section.
SectionOffset(id) == Len(WriteBundle(0, 0, <<[id |-> id, type |-> 0, offset |-> 0]>>, <<>>))
SectionBundle(major, minor, id, type, section) ==
    WriteBundle(major, minor,
                <<[id |-> id, type |-> type, offset |-> SectionOffset(id)]>>, section)

\* Versions "0.3" to "0.5" store no bounding box with a part.
ExplicitAABB(major, minor) == ~(major = 0 /\ minor \in {3, 4, 5})

MeshBundle(major, minor, ms) ==
    SectionBundle(major, minor, <<109>>, BUNDLE_TYPE_MESH,
                  WriteMeshes(ms, ExplicitAABB(major, minor)))

(***************************************************************************)
(* The files of the mesh specification: meshes of two vertices (1,2,3) and *)
(* (4,5,6) with one part each, over every short index array, and every     *)
(* prefix of a bundle of MaxMeshes meshes.                                 *)
(***************************************************************************)
MaxIndex == 2        \* the largest index value written into a part
MaxIndices == 2      \* the longest index array written into a part
MaxMeshes == 2       \* meshes in the bundle that is cut short

PositionAttrib ==
    [size |-> 3, type |-> Chars_GL_FLOAT, attribute |-> Chars_VERTEX_ATTRIB_POSITION]
WrittenMesh(indices) ==
    [attributes |-> <<PositionAttrib>>, vertices |-> <<1, 2, 3, 4, 5, 6>>,
     parts |-> <<[id |-> <<112>>, indices |-> indices, aabb |-> <<1, 2, 3, 4, 5, 6>>]>>]
IndexArrays == UNION {[1..k -> 0..MaxIndex] : k \in 0..MaxIndices}
MeshVersions == {<<0, 5>>, <<0, 7>>}

WholeMeshes == [i \in 1..MaxMeshes |-> WrittenMesh(<<0, 1>>)]
WholeMeshBundle(v) == MeshBundle(v[1], v[2], WholeMeshes)

\* written: the meshes given to the writer and whether the file is all of
\* what was written or cut short.
MeshFiles ==
    {BinaryFile(MeshBundle(v[1], v[2], <<WrittenMesh(ix)>>),
                [meshes |-> <<WrittenMesh(ix)>>, whole |-> TRUE]) :
        v \in MeshVersions, ix \in IndexArrays}
    \cup UNION {{BinaryFile(SubSeq(WholeMeshBundle(v), 1, k),
                             [meshes |-> WholeMeshes,
                              whole |-> k = Len(WholeMeshBundle(v))]) :
                     k \in SectionOffset(<<109>>)..Len(WholeMeshBundle(v))} :
                 v \in MeshVersions}
    \cup {BinaryFile(MeshBundle(0, 2, <<WrittenMesh(<<0, 1>>)>>),
                     [meshes |-> <<>>, whole |-> TRUE])}

\* The JSON mesh documents: the layout of version "0.2" ("vertex", "submesh")
\* with one vertex (0,0,0) and one or two sub-meshes, the layout of version
\* "0.1" ("body") under versions "0.2" and "1.2", and the current layout.
DocAttrib == [size |-> 3, type |-> "GL_FLOAT", attribute |-> "VERTEX_ATTRIB_POSITION"]
DocSubmesh(indices) == [id |-> "p", indexnum |-> Len(indices), indices |-> indices]
DocSubmeshLists == UNION {[1..k -> {DocSubmesh(<<>>), DocSubmesh(<<0>>)}] : k \in 1..2}
MeshDoc_0_2(submeshes) ==
    [version |-> Version("0.2"),
     mesh |-> <<[attributes |-> <<DocAttrib>>,
                 vertex |-> <<[vertexsize |-> 3, vertices |-> <<0, 0, 0>>]>>,
                 submesh |-> submeshes]>>]
MeshDoc_0_1(version, indices) ==
    [version |-> version,
     mesh |-> <<[attributes |-> <<DocAttrib>>,
                 body |-> <<[vertexsize |-> 6, vertices |-> <<1, 2, 3, 4, 5, 6>>,
                             indexnum |-> Len(indices), indices |-> indices]>>]>>]
MeshDoc(indices) ==
    [version |-> Version("0.7"),
     meshes |-> <<[attributes |-> <<DocAttrib>>, vertices |-> <<1, 2, 3, 4, 5, 6>>,
                   parts |-> <<[id |-> "p", indices |-> indices]>>]>>]
MeshDocs ==
    {MeshDoc_0_2(submeshes) : submeshes \in DocSubmeshLists}
    \cup {MeshDoc_0_1(version, indices) :
              version \in {Version("0.2"), VersionArray}, indices \in IndexArrays}
    \cup {MeshDoc(indices) : indices \in IndexArrays}

InitMesh ==
    /\ fs \in FileSystems(MeshFiles, {NoFile}, {NoFile})
              \cup FileSystems({NoFile}, {NoFile}, {JsonFile(doc) : doc \in MeshDocs})
    /\ InitState

NextMesh ==
    \/ Load(PathA)
    \/ Load(PathT)
    \/ LoadMeshDatas

SpecMesh == InitMesh /\ [][NextMesh]_vars

(***************************************************************************)
(* The binary mesh list.                                                   *)
(***************************************************************************)

\* C4: loadMeshDatas on a binary bundle of the current format whose mesh list
\* is cut short, at whichever byte, returns false and leaves the MeshDatas
\* aggregate empty.
C4_ShortReadEmpties ==
    (last.op = "loadMeshDatas" /\ _path = PathA /\ _version \notin {"0.1", "0.2"}
         /\ ~Written.whole)
        => (~aborted /\ ~last.ret /\ meshdatas = <<>>)

VertexCount(meshData) == Len(meshData.vertex) \div (getPerVertexSize(meshData) \div 4)

\* C6: after a successful load of a binary bundle and a successful
\* loadMeshDatas, every index of every sub-mesh of a mesh is less than the
\* mesh's vertex count.
C6_IndicesInRange ==
    (last.op = "loadMeshDatas" /\ last.ret /\ _isBinary /\ _path = PathA)
        => \A m \in 1..Len(meshdatas) :
           \A p \in 1..Len(meshdatas[m].subMeshIndices) :
           \A k \in 1..Len(meshdatas[m].subMeshIndices[p]) :
               meshdatas[m].subMeshIndices[p][k] < VertexCount(meshdatas[m])

(***************************************************************************)
(* Skin sections as an exporter writes them, and the files of the skin     *)
(* specification: binary sections of 0..MaxBones bones over every root     *)
(* name and every short list of links, every prefix of one of them, and    *)
(* the JSON documents of the same skins.                                   *)
(***************************************************************************)
Mat(n) == [k \in 1..16 |-> n]

WriteBone(bone) == WriteString(bone.name) \o WriteFloats(bone.bindpos)
WriteLink(link) ==
    WriteString(link.id) \o WriteString(link.parent) \o WriteFloats(link.transform)
WriteSkin(s) ==
    WriteString(s.name) \o WriteFloats(s.bindShape)
        \o WriteU32(Len(s.bones))
        \o Flatten([i \in 1..Len(s.bones) |-> WriteBone(s.bones[i])])
        \o WriteString(s.root.name) \o WriteFloats(s.root.transform)
        \o WriteU32(Len(s.links))
        \o Flatten([i \in 1..Len(s.links) |-> WriteLink(s.links[i])])

SkinBundle(s) == SectionBundle(0, 5, <<115>>, BUNDLE_TYPE_MESHSKIN, WriteSkin(s))

MaxBones == 2        \* skin bones of a written skin
MaxLinks == 2        \* links of a written binary skin section
MaxDepth == 2        \* generations under the root of a written JSON bone tree

BoneChars == <<97, 98, 99, 100>>                  \* "a", "b", "c", "d"
RootChars == {<<97>>, <<114>>}                    \* "a" (the first bone) and "r"
WrittenBones(n) == [i \in 1..n |-> [name |-> <<BoneChars[i]>>, bindpos |-> Mat(i)]]
Links ==
    {[id |-> id, parent |-> parent, transform |-> Mat(7)] :
        id \in RootChars, parent \in RootChars}
LinkSeqs == UNION {[1..k -> Links] : k \in 0..MaxLinks}
WrittenSkin(n, rootName, links) ==
    [name |-> <<115>>, bindShape |-> Mat(9), bones |-> WrittenBones(n),
     root |-> [name |-> rootName, transform |-> Mat(8)], links |-> links]
WrittenSkins ==
    {WrittenSkin(n, rootName, links) :
        n \in 0..MaxBones, rootName \in RootChars, links \in LinkSeqs}

CutSkin == WrittenSkin(1, <<114>>, <<[id |-> <<97>>, parent |-> <<114>>, transform |-> Mat(7)]>>)

\* written: the skin given to the writer and whether the file is all of it.
SkinFiles ==
    {BinaryFile(SkinBundle(s), [skin |-> s, whole |-> TRUE]) : s \in WrittenSkins}
    \cup {BinaryFile(SubSeq(SkinBundle(CutSkin), 1, k), [skin |-> CutSkin, whole |-> FALSE]) :
              k \in SectionOffset(<<115>>)..(Len(SkinBundle(CutSkin)) - 1)}

\* The JSON skin: skin[0] holds the bones, skin[1] the tree of bones.
DocBones(n) ==
    [i \in 1..n |-> [node |-> ToStr(<<BoneChars[i]>>), bindshape |-> Mat(i)]]
RECURSIVE DocTreesOf(_)
DocTreesOf(depth) ==
    {[id |-> ToStr(name), tansform |-> Mat(8)] : name \in RootChars}
        \cup (IF depth = 0 THEN {}
              ELSE {[id |-> ToStr(name), tansform |-> Mat(7), children |-> <<child>>] :
                       name \in RootChars, child \in DocTreesOf(depth - 1)})
\* Every chain of at most MaxDepth generations, and a root of two children.
DocTrees ==
    DocTreesOf(MaxDepth)
        \cup {[id |-> "r", tansform |-> Mat(8),
               children |-> <<[id |-> "a", tansform |-> Mat(7)],
                              [id |-> "r", tansform |-> Mat(7)]>>]}
SkinDocs ==
    {[version |-> Version("0.7"), skin |-> <<[bones |-> DocBones(n)], tree>>] :
        n \in 0..MaxBones, tree \in DocTrees}
    \cup {[version |-> Version("0.7"), skin |-> <<[nobones |-> TRUE], tree>>] :
              tree \in DocTrees}

InitSkin ==
    /\ fs \in FileSystems(SkinFiles, {NoFile}, {NoFile})
              \cup FileSystems({NoFile}, {NoFile}, {JsonFile(doc) : doc \in SkinDocs})
    /\ InitState

NextSkin ==
    \/ Load(PathA)
    \/ Load(PathT)
    \/ LoadSkinData

SpecSkin == InitSkin /\ [][NextSkin]_vars

\* The skin section a loaded bundle came from: what the writer was given for
\* a binary bundle that is whole, the document itself for a JSON bundle.
SkinOfBinary == _isBinary /\ _path = PathA /\ fs[PathA].written.whole
SkinOfJson == ~_isBinary /\ _path = PathT /\ HasMember(_jsonReader.skin[1], "bones")
DeclaredBoneNames ==
    IF _isBinary
    THEN [i \in 1..Len(fs[PathA].written.skin.bones) |->
              ToStr(fs[PathA].written.skin.bones[i].name)]
    ELSE [i \in 1..Len(_jsonReader.skin[1].bones) |-> _jsonReader.skin[1].bones[i].node]
DeclaredRootName ==
    IF _isBinary THEN ToStr(fs[PathA].written.skin.root.name) ELSE _jsonReader.skin[2].id

\* C9: loadSkinData returns failure whenever the skin section declares zero
\* bones, in the binary encoding (bone count 0) and in the JSON encoding
\* (empty bones array).
C9_ZeroBonesFails ==
    (last.op = "loadSkinData" /\ (SkinOfBinary \/ SkinOfJson)
         /\ Len(DeclaredBoneNames) = 0)
        => ~last.ret

\* C10 (as the code has it): a well-formed skin section of one bone makes
\* loadSkinData succeed; rootBoneIndex is 0 when the root name is the name of
\* that skin bone and 1, the index of the node bone added for the root name,
\* when it is any other name.
C10_SingleBoneRoot ==
    (last.op = "loadSkinData" /\ (SkinOfBinary \/ SkinOfJson)
         /\ Len(DeclaredBoneNames) = 1)
        => /\ last.ret
           /\ ~aborted
           /\ skindata.skinBoneNames = DeclaredBoneNames
           /\ skindata.rootBoneIndex =
                  IF DeclaredRootName = DeclaredBoneNames[1] THEN 0 ELSE 1

\* C10 (as the spec has it): a well-formed skin section of one bone makes
\* loadSkinData succeed with rootBoneIndex 0, the index of that skin bone,
\* whatever root name and links follow.
C10_SingleBoneIsRoot ==
    (last.op = "loadSkinData" /\ (SkinOfBinary \/ SkinOfJson)
         /\ Len(DeclaredBoneNames) = 1)
        => (last.ret /\ skindata.rootBoneIndex = 0)

C10_Witness ==
    /\ last.op = "loadSkinData" /\ last.ret
    /\ SkinOfBinary
    /\ Len(DeclaredBoneNames) = 1
    /\ DeclaredRootName = "r"
    /\ Len(fs[PathA].written.skin.links) = 1
    /\ skindata.rootBoneIndex = 1
    /\ skindata.nodeBoneNames = <<"r">>

(***************************************************************************)
(* Node sections as an exporter writes them, in both encodings, and the    *)
(* files of the node specification: lists of at most MaxNodes top-level    *)
(* nodes, the first with at most MaxChildren children, over parts that are *)
(* absent, complete, or lack their mesh-part id or their material id.      *)
(***************************************************************************)
WritePartBone(bone) == WriteString(bone.node) \o WriteFloats(bone.transform)
WriteUv(indices) ==
    WriteU32(Len(indices)) \o Flatten([k \in 1..Len(indices) |-> WriteU32(indices[k])])
WriteNodePart(part) ==
    WriteString(part.meshpartid) \o WriteString(part.materialid)
        \o WriteU32(Len(part.bones))
        \o Flatten([j \in 1..Len(part.bones) |-> WritePartBone(part.bones[j])])
        \o WriteU32(Len(part.uvMapping))
        \o Flatten([j \in 1..Len(part.uvMapping) |-> WriteUv(part.uvMapping[j])])

RECURSIVE WriteNode(_)
WriteNode(n) ==
    WriteString(n.id) \o <<IF n.skeleton THEN 1 ELSE 0>> \o WriteFloats(n.transform)
        \o WriteU32(Len(n.parts))
        \o Flatten([i \in 1..Len(n.parts) |-> WriteNodePart(n.parts[i])])
        \o WriteU32(Len(n.children))
        \o Flatten([i \in 1..Len(n.children) |-> WriteNode(n.children[i])])

WriteNodes(ns) == WriteU32(Len(ns)) \o Flatten([i \in 1..Len(ns) |-> WriteNode(ns[i])])

NodeBundle(major, minor, ns) ==
    SectionBundle(major, minor, <<110>>, BUNDLE_TYPE_NODE, WriteNodes(ns))

DocPart(part) ==
    [meshpartid |-> ToStr(part.meshpartid), materialid |-> ToStr(part.materialid),
     bones |-> [j \in 1..Len(part.bones) |->
                   [node |-> ToStr(part.bones[j].node),
                    transform |-> part.bones[j].transform]]]

RECURSIVE DocNode(_)
DocNode(n) ==
    [id |-> ToStr(n.id), skeleton |-> n.skeleton, transform |-> n.transform,
     parts |-> [i \in 1..Len(n.parts) |-> DocPart(n.parts[i])],
     children |-> [i \in 1..Len(n.children) |-> DocNode(n.children[i])]]

NodesDoc(version, ns) ==
    [version |-> Version(version), nodes |-> [i \in 1..Len(ns) |-> DocNode(ns[i])]]

WrittenJson(doc, written) == [JsonFile(doc) EXCEPT !.written = written]

MaxNodes == 2        \* top-level nodes of a written node section
MaxChildren == 1     \* children of the first top-level node

GoodPart ==
    [meshpartid |-> <<112>>, materialid |-> <<109>>, bones |-> <<>>, uvMapping |-> <<<<0>>>>]
SkinPart ==
    [GoodPart EXCEPT !.bones = <<[node |-> <<98>>, transform |-> Mat(3)]>>]
NoMeshPartId == [GoodPart EXCEPT !.meshpartid = <<>>]
NoMaterialId == [GoodPart EXCEPT !.materialid = <<>>]
PartLists == {<<>>, <<GoodPart>>, <<NoMeshPartId>>, <<NoMaterialId>>, <<GoodPart, NoMeshPartId>>}

WrittenNode(id, skeleton, parts, children) ==
    [id |-> id, skeleton |-> skeleton, transform |-> Mat(2), parts |-> parts,
     children |-> children]

Leaves ==
    {WrittenNode(<<99>>, FALSE, parts, <<>>) : parts \in PartLists}
        \cup {WrittenNode(<<99>>, TRUE, <<>>, <<>>)}
ChildLists == UNION {[1..k -> Leaves] : k \in 0..MaxChildren}
FirstNodes ==
    {WrittenNode(<<110>>, skeleton, parts, children) :
        skeleton \in BOOLEAN, parts \in {<<>>, <<SkinPart>>}, children \in ChildLists}
NodeLists ==
    {<<first>> \o rest :
        first \in FirstNodes, rest \in UNION {[1..k -> Leaves] : k \in 0..(MaxNodes - 1)}}

\* Three generations: the part without a mesh-part id is the grandchild's.
DeepNodes ==
    <<WrittenNode(<<110>>, FALSE, <<GoodPart>>,
          <<WrittenNode(<<100>>, FALSE, <<>>,
                <<WrittenNode(<<99>>, FALSE, <<NoMeshPartId>>, <<>>)>>)>>)>>

CutNodes ==
    <<WrittenNode(<<110>>, FALSE, <<SkinPart>>,
          <<WrittenNode(<<99>>, FALSE, <<GoodPart>>, <<>>)>>)>>

\* The lists written with version "0.5": every single node, and a list of
\* two nodes, the first skinned with a child, the second plain.
OldNodeLists ==
    {<<first>> : first \in FirstNodes}
        \cup {<<WrittenNode(<<110>>, FALSE, <<SkinPart>>,
                    <<WrittenNode(<<99>>, FALSE, <<GoodPart>>, <<>>)>>),
                 WrittenNode(<<100>>, FALSE, <<GoodPart>>, <<>>)>>}

\* written: the nodes given to the writer and whether the file is all of it.
NodeFiles ==
    {BinaryFile(NodeBundle(0, 7, ns), [nodes |-> ns, whole |-> TRUE]) :
        ns \in NodeLists \cup {DeepNodes}}
    \cup {BinaryFile(NodeBundle(0, 5, ns), [nodes |-> ns, whole |-> TRUE]) :
              ns \in OldNodeLists}
    \cup {BinaryFile(SubSeq(NodeBundle(0, 7, CutNodes), 1, k),
                     [nodes |-> CutNodes, whole |-> FALSE]) :
              k \in SectionOffset(<<110>>)..(Len(NodeBundle(0, 7, CutNodes)) - 1)}

NodeDocs ==
    {WrittenJson(NodesDoc("0.7", ns), [nodes |-> ns, whole |-> TRUE]) :
        ns \in NodeLists \cup {DeepNodes}}
    \cup {WrittenJson(NodesDoc("0.5", ns), [nodes |-> ns, whole |-> TRUE]) :
              ns \in OldNodeLists}

InitNodes ==
    /\ fs \in FileSystems(NodeFiles, {NoFile}, {NoFile})
              \cup FileSystems({NoFile}, {NoFile}, NodeDocs)
    /\ InitState

NextNodes ==
    \/ Load(PathA)
    \/ Load(PathT)
    \/ LoadNodes

SpecNodes == InitNodes /\ [][NextNodes]_vars

RECURSIVE HasBadPart(_)
HasBadPart(n) ==
    \/ \E i \in 1..Len(n.parts) : n.parts[i].meshpartid = <<>> \/ n.parts[i].materialid = <<>>
    \/ \E i \in 1..Len(n.children) : HasBadPart(n.children[i])

RECURSIVE NoNullChild(_)
NoNullChild(node) ==
    \/ node.isNull
    \/ \A k \in 1..Len(node.children) :
           ~node.children[k].isNull /\ NoNullChild(node.children[k])

Entries == nodedatas.nodes \o nodedatas.skeleton

\* C5: a node part with an empty mesh-part id or material id makes the parse
\* of its node return null and the null goes up the recursion: no node that
\* was kept holds an entry (null or partial) for the branch among its
\* children, and every ancestor call yields null, so that the top-level
\* entry of a tree with such a part is null.
C5_NullPropagates ==
    (last.op = "loadNodes" /\ _path \in {PathA, PathT} /\ fs[_path].written.whole)
        => /\ \A e \in 1..Len(Entries) : NoNullChild(Entries[e])
           /\ (\A i \in 1..Len(fs[_path].written.nodes) :
                   HasBadPart(fs[_path].written.nodes[i]))
                  => \A e \in 1..Len(Entries) : Entries[e].isNull

(***************************************************************************)
(* The indices of a loaded skin.                                           *)
(***************************************************************************)
ValidBone(data, index) ==
    index >= 0 /\ index < Len(data.skinBoneNames) + Len(data.nodeBoneNames)

\* C11: after a successful loadSkinData, binary or JSON, rootBoneIndex and
\* every key and every child value of the boneChild map is an index into the
\* skin bone names followed by the node bone names, whatever links or tree
\* the section holds (names that repeat, names met first as a parent).
C11_IndicesValid ==
    (last.op = "loadSkinData" /\ last.ret /\ ~aborted)
        => /\ ValidBone(skindata, skindata.rootBoneIndex)
           /\ \A parent \in DOMAIN skindata.boneChild :
                  /\ ValidBone(skindata, parent)
                  /\ \A k \in 1..Len(skindata.boneChild[parent]) :
                         ValidBone(skindata, skindata.boneChild[parent][k])

\* One skin bone "a", the root "a", the links (a under r) and (r under a):
\* "r" is met first as a parent and then as the id of a link.
C11_Witness ==
    /\ last.op = "loadSkinData" /\ last.ret /\ ~aborted
    /\ SkinOfBinary
    /\ Len(fs[PathA].written.skin.links) = 2
    /\ skindata.skinBoneNames = <<"a">>
    /\ skindata.nodeBoneNames = <<"r">>
    /\ DOMAIN skindata.boneChild = {0, 1}
    /\ skindata.boneChild[0] = <<1>>
    /\ skindata.boneChild[1] = <<0>>

(***************************************************************************)
(* The transform of a parsed node.                                         *)
(***************************************************************************)
OldVersions == {"0.1", "0.2", "0.3", "0.4", "0.5", "0.6"}

Skinned(n) == \E i \in 1..Len(n.parts) : Len(n.parts[i].bones) > 0

\* A parsed node against the node that was written: the ids, the children one
\* for one, and the transform, which is the identity for a version of
\* OldVersions when the node is skinned or is the sole top-level node (sole),
\* and else the transform that was written.
RECURSIVE KeepsOwnTransform(_, _, _, _)
KeepsOwnTransform(node, n, version, sole) ==
    /\ ~node.isNull
    /\ node.id = ToStr(n.id)
    /\ node.transform =
           IF version \in OldVersions /\ (Skinned(n) \/ sole) THEN Identity
           ELSE n.transform
    /\ Len(node.children) = Len(n.children)
    /\ \A k \in 1..Len(n.children) :
           KeepsOwnTransform(node.children[k], n.children[k], version, FALSE)

\* C12: for versions "0.1" to "0.6" the transform of a parsed node is the
\* identity exactly when the node itself has a part with a bone or is the
\* sole top-level node of the bundle; every other node, the descendants of
\* that sole node among them, keeps the transform that was written, and for
\* a later version every node keeps it.
C12_TransformOfNode ==
    (/\ last.op = "loadNodes" /\ last.held = 0 /\ ~aborted
     /\ _path \in {PathA, PathT} /\ fs[_path].written.whole
     /\ \A i \in 1..Len(fs[_path].written.nodes) : ~HasBadPart(fs[_path].written.nodes[i]))
        => /\ Len(Entries) = Len(fs[_path].written.nodes)
           /\ \A e \in 1..Len(Entries) :
                  \E i \in 1..Len(fs[_path].written.nodes) :
                      KeepsOwnTransform(Entries[e], fs[_path].written.nodes[i], _version,
                                        Len(fs[_path].written.nodes) = 1)

(***************************************************************************)
(* The JSON mesh of version "0.2".                                         *)
(***************************************************************************)
\* The document loaded has the layout of version "0.2".
Layout_0_2 ==
    /\ ~_isBinary /\ _path = PathT /\ _version = "0.2"
    /\ HasMember(_jsonReader.mesh[1], "submesh")

PointBox(point) == AABB(point, point)

\* C13: for a JSON bundle of version "0.2" whose mesh entry holds its vertex
\* data under "vertex"[0] and its parts under "submesh", loadMeshDatas
\* succeeds and yields one mesh with one index array for each submesh entry;
\* for the vertex (0,0,0) and one submesh of indexnum 0 the index array is
\* empty and the bounding box of the sub-mesh is the point box.
C13_LegacyJsonMesh ==
    (last.op = "loadMeshDatas" /\ Layout_0_2)
        => /\ ~aborted
           /\ last.ret
           /\ Len(meshdatas) = 1
           /\ meshdatas[1].vertex = _jsonReader.mesh[1].vertex[1].vertices
           /\ Len(meshdatas[1].subMeshIndices) = Len(_jsonReader.mesh[1].submesh)
           /\ \A i \in 1..Len(_jsonReader.mesh[1].submesh) :
                  meshdatas[1].subMeshIndices[i] = _jsonReader.mesh[1].submesh[i].indices
           /\ _jsonReader.mesh[1].submesh = <<DocSubmesh(<<>>)>>
                  => meshdatas[1].subMeshAABB = <<PointBox(<<0, 0, 0>>)>>

(***************************************************************************)
(* Writing the material section in its three binary layouts, and the       *)
(* material specification: current-format sections of 0..MaxMaterials      *)
(* materials over short texture lists (a texture without id, one without   *)
(* path, one of unknown wrap mode among them), version "0.2" sections of   *)
(* 0..MaxPaths texture paths, the empty one among them, version "0.1"      *)
(* sections, every prefix of one section of each layout, and JSON          *)
(* documents of the three JSON layouts.                                    *)
(***************************************************************************)
WriteTexture(t) ==
    WriteString(t.id) \o WriteString(t.path) \o WriteFloats(<<0, 0, 1, 1>>)
        \o WriteString(t.type) \o WriteString(t.wrapS) \o WriteString(t.wrapT)
WriteMaterial(m) ==
    WriteString(m.id) \o WriteFloats([k \in 1..14 |-> 0]) \o WriteU32(Len(m.textures))
        \o Flatten([j \in 1..Len(m.textures) |-> WriteTexture(m.textures[j])])
WriteMaterials(ms) ==
    WriteU32(Len(ms)) \o Flatten([i \in 1..Len(ms) |-> WriteMaterial(ms[i])])
WriteMaterials_0_2(paths) ==
    WriteU32(Len(paths)) \o Flatten([i \in 1..Len(paths) |-> WriteString(paths[i])])

MaterialBundle(major, minor, section) ==
    SectionBundle(major, minor, <<109>>, BUNDLE_TYPE_MATERIAL, section)

MaxMaterials == 2    \* materials of a written current-format section
MaxPaths == 3        \* texture paths of a written version "0.2" section

Chars_DIFFUSE == <<68, 73, 70, 70, 85, 83, 69>>
Chars_NORMAL == <<78, 79, 82, 77, 65, 76>>
Chars_REPEAT == <<82, 69, 80, 69, 65, 84>>
Chars_CLAMP == <<67, 76, 65, 77, 80>>
Chars_MIRROR == <<77, 73, 82, 82, 79, 82>>

GoodTexture ==
    [id |-> <<116>>, path |-> <<112>>, type |-> Chars_DIFFUSE,
     wrapS |-> Chars_REPEAT, wrapT |-> Chars_CLAMP]
NormalTexture ==
    [id |-> <<117>>, path |-> <<113>>, type |-> Chars_NORMAL,
     wrapS |-> Chars_CLAMP, wrapT |-> Chars_REPEAT]
MirrorTexture == [GoodTexture EXCEPT !.wrapS = Chars_MIRROR]
TextureLists ==
    {<<>>, <<GoodTexture>>, <<GoodTexture, NormalTexture>>,
     <<[GoodTexture EXCEPT !.id = <<>>]>>,
     <<GoodTexture, [NormalTexture EXCEPT !.path = <<>>]>>,
     <<MirrorTexture>>}
WrittenMaterials ==
    UNION {[1..n -> {[id |-> <<105>>, textures |-> ts] : ts \in TextureLists}] :
              n \in 0..MaxMaterials}
CutMaterials ==
    <<[id |-> <<105>>, textures |-> <<GoodTexture>>],
      [id |-> <<106>>, textures |-> <<NormalTexture>>]>>

WrittenPaths == UNION {[1..n -> {<<>>, <<112>>, <<113>>}] : n \in 0..MaxPaths}
CutPaths == <<<<112>>, <<113, 113>>>>

Cuts(bundle) == {SubSeq(bundle, 1, k) : k \in SectionOffset(<<109>>)..(Len(bundle) - 1)}

\* written: the layout, what the writer was given, whether the file is all of it.
MaterialFiles ==
    {BinaryFile(MaterialBundle(0, 5, WriteMaterials(ms)),
                [layout |-> "0.5", materials |-> ms, whole |-> TRUE]) :
        ms \in WrittenMaterials}
    \cup {BinaryFile(cut, [layout |-> "0.5", materials |-> CutMaterials, whole |-> FALSE]) :
              cut \in Cuts(MaterialBundle(0, 5, WriteMaterials(CutMaterials)))}
    \cup {BinaryFile(MaterialBundle(0, 2, WriteMaterials_0_2(paths)),
                     [layout |-> "0.2", materials |-> paths, whole |-> TRUE]) :
              paths \in WrittenPaths}
    \cup {BinaryFile(cut, [layout |-> "0.2", materials |-> CutPaths, whole |-> FALSE]) :
              cut \in Cuts(MaterialBundle(0, 2, WriteMaterials_0_2(CutPaths)))}
    \cup {BinaryFile(MaterialBundle(0, 1, WriteString(path)),
                     [layout |-> "0.1", materials |-> <<path>>, whole |-> TRUE]) :
              path \in {<<>>, <<112>>}}
    \cup {BinaryFile(WriteBundle(0, 2, BaseRefs, <<>>),
                     [layout |-> "0.2", materials |-> <<>>, whole |-> FALSE])}

DocTexture(t) ==
    [id |-> ToStr(t.id), filename |-> ToStr(t.path), type |-> ToStr(t.type),
     wrapModeU |-> ToStr(t.wrapS), wrapModeV |-> ToStr(t.wrapT)]
DocMaterial(m) ==
    IF m.textures = <<>> THEN [id |-> ToStr(m.id)]
    ELSE [id |-> ToStr(m.id),
          textures |-> [j \in 1..Len(m.textures) |-> DocTexture(m.textures[j])]]
MaterialDocs ==
    {[version |-> Version("0.7"), materials |-> [i \in 1..Len(ms) |-> DocMaterial(ms[i])]] :
        ms \in WrittenMaterials}
    \cup {[version |-> Version("0.7")], [version |-> Version("0.2")]}
    \cup {[version |-> Version("1.2"), material |-> array] :
              array \in {<<>>, <<[base |-> <<[filename |-> "p"]>>]>>, <<[nobase |-> TRUE]>>,
                         <<[base |-> <<[filename |-> "p"], [filename |-> "q"]>>],
                           [base |-> <<[filename |-> "q"]>>]>>,
                         <<[nobase |-> TRUE], [base |-> <<[filename |-> "q"]>>]>>}}
    \cup {[version |-> Version("0.2"),
           material |-> [i \in 1..Len(paths) |-> [textures |-> ToStr(paths[i])]]] :
              paths \in {p \in WrittenPaths : Len(p) <= 2}}

InitMaterials ==
    /\ fs \in FileSystems(MaterialFiles, {NoFile}, {NoFile})
              \cup FileSystems({NoFile}, {NoFile}, {JsonFile(doc) : doc \in MaterialDocs})
    /\ InitState

NextMaterials ==
    \/ Load(PathA)
    \/ Load(PathT)
    \/ LoadMaterials

SpecMaterials == InitMaterials /\ [][NextMaterials]_vars

\* The material section a loaded binary bundle came from.
MaterialsOfBinary(layout) ==
    /\ last.op = "loadMaterials"
    /\ ~aborted
    /\ _isBinary
    /\ _path = PathA
    /\ fs[PathA].written.layout = layout

(***************************************************************************)
(* C14: when a list-building section loader gives up on a truncated or     *)
(* invalid entry, its aggregate holds no entry built in that call: after   *)
(* loadMaterials returned false, on an empty texture id or texture path of *)
(* a material that is not the first, the MaterialDatas list is empty.      *)
(***************************************************************************)
C14_AbortLeavesNoEntry ==
    (MaterialsOfBinary("0.5") /\ fs[PathA].written.whole /\ ~last.ret)
        => materialdatas = <<>>

\* The texture paths in front of the first empty one.
RECURSIVE Leading(_)
Leading(paths) ==
    IF paths = <<>> \/ Head(paths) = <<>> THEN <<>>
    ELSE <<Head(paths)>> \o Leading(Tail(paths))

\* One material of a single diffuse texture for each path.
DiffuseMaterials(paths) ==
    [i \in 1..Len(paths) |->
        [id |-> "",
         textures |-> <<[NewTextureData EXCEPT !.filename = "m/" \o ToStr(paths[i]),
                                               !.type = "Diffuse"]>>]]

MaterialFound == seekToFirstType(Bundle, BUNDLE_TYPE_MATERIAL, "").ref /= 0

(***************************************************************************)
(* C15: on a binary bundle of version "0.2" whose MATERIAL reference is    *)
(* found, loadMaterials returns true whatever the section holds: the list  *)
(* is one material of a single diffuse texture for each texture path in    *)
(* front of the first empty one, and of a section cut short as many of     *)
(* them as were read whole.                                                *)
(***************************************************************************)
C15_EmptyPathSucceeds ==
    (MaterialsOfBinary("0.2") /\ MaterialFound) =>
        /\ last.ret
        /\ Bind(DiffuseMaterials(Leading(fs[PathA].written.materials)), LAMBDA all :
           IF fs[PathA].written.whole THEN materialdatas = all
           ELSE \E k \in 0..Len(all) : materialdatas = SubSeq(all, 1, k))

C15_Witness ==
    /\ MaterialsOfBinary("0.2")
    /\ MaterialFound
    /\ fs[PathA].written.whole
    /\ Bind(fs[PathA].written.materials, LAMBDA paths :
       /\ Len(paths) = 3
       /\ paths[1] /= <<>>
       /\ paths[2] = <<>>
       /\ paths[3] /= <<>>)
    /\ last.ret
    /\ Len(materialdatas) = 1

WrapModes == {"REPEAT", "CLAMP"}

(***************************************************************************)
(* C16: the translators reject an unrecognized code: its result differs    *)
(* from the result of every recognized code, and the assertion of the      *)
(* fallback branch is not reached on file content the section loaders      *)
(* accept.  Here on the wrap mode of a texture: after loadMaterials        *)
(* returned true on a whole binary section no assertion was reached and a  *)
(* texture written with a wrap mode outside the table is not given the     *)
(* mode of a recognized code.                                              *)
(***************************************************************************)
C16_UnknownCodeRejected ==
    (MaterialsOfBinary("0.5") /\ fs[PathA].written.whole /\ last.ret) =>
        /\ last.fault = ""
        /\ \A i \in 1..Len(materialdatas) : \A j \in 1..Len(materialdatas[i].textures) :
               ToStr(fs[PathA].written.materials[i].textures[j].wrapS) \notin WrapModes
                   => materialdatas[i].textures[j].wrapS
                          \notin {parseSamplerAddressMode(str).value : str \in WrapModes}

(***************************************************************************)
(* Writing the animation section, and the animation specification: a       *)
(* section is the clips, after their number where the layout has one; a    *)
(* keyframe is its time, its transform flag where the version has one, and *)
(* the channels it holds.  The files are sections of one clip of one track *)
(* of 0..MaxKeys keyframes over every flag of Flags and two key times, a   *)
(* clip that comes back to a bone, a section of two clips, each in the     *)
(* versions "0.1" to "0.5" with and without the number of clips, every     *)
(* prefix of one section, and JSON documents of 0..MaxClips entries over   *)
(* two ids.                                                                *)
(***************************************************************************)
Rotation(kf) == <<kf.time, 0, 0, 1>>
Scale(kf) == <<1, 1, kf.time>>
Translation(kf) == <<kf.time, 2, 3>>

WriteKeyframe(kf, flagged) ==
    WriteU32(kf.time) \o (IF flagged THEN <<kf.flag>> ELSE <<>>)
        \o (IF ~flagged \/ kf.flag % 2 = 1 THEN WriteFloats(Rotation(kf)) ELSE <<>>)
        \o (IF ~flagged \/ (kf.flag \div 2) % 2 = 1 THEN WriteFloats(Scale(kf)) ELSE <<>>)
        \o (IF ~flagged \/ (kf.flag \div 4) % 2 = 1 THEN WriteFloats(Translation(kf)) ELSE <<>>)
WriteTrack(b, flagged) ==
    WriteString(b.name) \o WriteU32(Len(b.keyframes))
        \o Flatten([j \in 1..Len(b.keyframes) |-> WriteKeyframe(b.keyframes[j], flagged)])
WriteClip(c, flagged) ==
    WriteString(c.id) \o WriteU32(c.length) \o WriteU32(Len(c.bones))
        \o Flatten([i \in 1..Len(c.bones) |-> WriteTrack(c.bones[i], flagged)])
WriteAnimations(clips, counted, flagged) ==
    (IF counted THEN WriteU32(Len(clips)) ELSE <<>>)
        \o Flatten([k \in 1..Len(clips) |-> WriteClip(clips[k], flagged)])

Chars_canimation == <<99, 97, 110, 105, 109, 97, 116, 105, 111, 110>>
AnimationBundle(minor, clips, counted) ==
    SectionBundle(0, minor, Chars_canimation, BUNDLE_TYPE_ANIMATIONS,
                  WriteAnimations(clips, counted, minor > 3))

MaxKeys == 2         \* keyframes of a written track
MaxClips == 3        \* entries of a JSON animation array

Flags == {0, 1, 2, 4, 7, 13}
Keyframes(minor) == [time : {1, 2}, flag : IF minor > 3 THEN Flags ELSE {7}]
KeyframeLists(minor) == UNION {[1..n -> Keyframes(minor)] : n \in 0..MaxKeys}
Clip(id, length, bones) == [id |-> id, length |-> length, bones |-> bones]
OneTrackClips(minor) ==
    {<<Clip(<<99>>, 9, <<[name |-> <<97>>, keyframes |-> ks]>>)>> : ks \in KeyframeLists(minor)}
ReturningClip ==
    Clip(<<99>>, 9, <<[name |-> <<97>>, keyframes |-> <<[time |-> 2, flag |-> 7]>>],
                      [name |-> <<98>>, keyframes |-> <<[time |-> 1, flag |-> 7]>>],
                      [name |-> <<97>>, keyframes |-> <<[time |-> 1, flag |-> 7]>>]>>)
SecondClip == Clip(<<100>>, 5, <<[name |-> <<98>>, keyframes |-> <<[time |-> 1, flag |-> 7]>>]>>)
ClipLists(minor) ==
    OneTrackClips(minor)
        \cup {<<>>, <<ReturningClip>>, <<ReturningClip, SecondClip>>,
              <<SecondClip, ReturningClip>>, <<Clip(<<99>>, 9, <<>>)>>}

AnimMinors == 1..5
AnimationFile(minor, clips, counted) ==
    BinaryFile(AnimationBundle(minor, clips, counted),
               [minor |-> minor, clips |-> clips, counted |-> counted, whole |-> TRUE])
AnimationFiles ==
    {AnimationFile(minor, clips, counted) :
        minor \in AnimMinors, clips \in {<<ReturningClip>>, <<ReturningClip, SecondClip>>},
        counted \in BOOLEAN}
    \cup UNION {{AnimationFile(minor, clips, minor \in {3, 4}) : clips \in ClipLists(minor)} :
                    minor \in AnimMinors}
    \cup {BinaryFile(cut, [minor |-> 5, clips |-> <<ReturningClip>>, counted |-> FALSE,
                           whole |-> FALSE]) :
              cut \in {SubSeq(AnimationBundle(5, <<ReturningClip>>, FALSE), 1, k) :
                          k \in SectionOffset(Chars_canimation)
                                  ..(Len(AnimationBundle(5, <<ReturningClip>>, FALSE)) - 1)}}

DocKeyframes ==
    <<[keytime |-> 2, rotation |-> <<0, 0, 0, 1>>, translation |-> <<1, 2, 3>>],
      [keytime |-> 1, scale |-> <<1, 1, 1>>]>>
DocClip(id, length) ==
    [id |-> id, length |-> length,
     bones |-> <<[boneId |-> "a", keyframes |-> DocKeyframes], [boneId |-> "b"]>>]
DocClipLists ==
    UNION {{[i \in 1..n |-> DocClip(ids[i], i)] : ids \in [1..n -> {"c", "d"}]} :
              n \in 0..MaxClips}
AnimationDocs ==
    {[version |-> Version("0.7"), animations |-> clips] : clips \in DocClipLists}
    \cup {[version |-> Version("0.2"), animation |-> clips] : clips \in DocClipLists}
    \cup {[version |-> Version("0.7")], [version |-> Version("0.7"), animation |-> <<DocClip("c", 1)>>]}

InitAnimation ==
    /\ fs \in FileSystems(AnimationFiles, {NoFile}, {NoFile})
              \cup FileSystems({NoFile}, {NoFile}, {JsonFile(doc) : doc \in AnimationDocs})
    /\ InitState

NextAnimation ==
    \/ Load(PathA)
    \/ Load(PathT)
    \/ \E id \in AnimIds : LoadAnimationData(id)

SpecAnimation == InitAnimation /\ [][NextAnimation]_vars

AnimationsOfJson ==
    /\ last.op = "loadAnimationData"
    /\ ~aborted
    /\ ~_isBinary
    /\ _path = PathT

\* The animation array of the loaded document, empty when it has none.
DocAnimations == Member(fs[PathT].text.doc, AnimKey(_version), <<>>)
DocMatches == {i \in 1..Len(DocAnimations) : DocAnimations[i].id = last.id}

(***************************************************************************)
(* C17: loadAnimationDataJson with a non-empty id takes the first entry of *)
(* the animation array whose id is the filter and fails when there is      *)
(* none; with an empty id it takes entry 0; it fails when the array is     *)
(* missing or empty.  The entry taken shows in the length of the clip.     *)
(***************************************************************************)
C17_FirstMatchWins ==
    AnimationsOfJson =>
        IF DocAnimations = <<>> THEN ~last.ret
        ELSE IF last.id = "" THEN last.ret /\ animationdata._totalTime = DocAnimations[1].length
        ELSE IF DocMatches = {} THEN ~last.ret
        ELSE last.ret /\ animationdata._totalTime = DocAnimations[First_(DocMatches)].length

AnimationsOfBinary ==
    /\ last.op = "loadAnimationData"
    /\ ~aborted
    /\ _isBinary
    /\ _path = PathA
    /\ fs[PathA].written.whole
    /\ fs[PathA].written.clips /= <<>>

\* The first clip of the section was read as it was written.
FirstClipRead ==
    /\ last.ret
    /\ animationdata._totalTime = fs[PathA].written.clips[1].length

(***************************************************************************)
(* C18 as stated: loadAnimationDataBinary reads a 4-byte number of clips   *)
(* in front of the clips for the versions "0.1", "0.2", "0.3" and "0.4"    *)
(* and for no later one: called without id on a section written with the   *)
(* number of clips exactly for these versions, it reads the first clip.    *)
(***************************************************************************)
C18_CountUpTo_0_4 ==
    (AnimationsOfBinary /\ last.id = ""
        /\ (fs[PathA].written.counted <=> fs[PathA].written.minor \in {1, 2, 3, 4}))
        => FirstClipRead

(***************************************************************************)
(* C18: loadAnimationDataBinary reads a 4-byte number of clips in front of *)
(* the clips for the versions "0.3" and "0.4" and for no other: called     *)
(* without id, it reads the first clip of a section written with the       *)
(* number of clips exactly for these two versions, and it does not read    *)
(* the first clip of a section laid out the other way.                     *)
(***************************************************************************)
C18_CountIn_0_3_And_0_4 ==
    (AnimationsOfBinary /\ last.id = "") =>
        (FirstClipRead <=>
            (fs[PathA].written.counted <=> fs[PathA].written.minor \in {3, 4}))

C18_Witness ==
    /\ AnimationsOfBinary
    /\ last.id = ""
    /\ fs[PathA].written.minor = 2
    /\ ~fs[PathA].written.counted
    /\ Len(fs[PathA].written.clips) = 2
    /\ FirstClipRead

\* The clip a call with this id reads from a section laid out for its version.
ClipsOfId ==
    {k \in 1..Len(fs[PathA].written.clips) :
        last.id = "" \/ ToStr(fs[PathA].written.clips[k].id) = last.id}
ClipRead == fs[PathA].written.clips[First_(ClipsOfId)]

\* The section holds a clip for the id of the call: any clip of a section
\* that starts with the number of clips, else the one clip the loader reads,
\* under the reference the id names.
ClipWithId ==
    IF fs[PathA].written.minor \in {3, 4} THEN ClipsOfId /= {}
    ELSE 1 \in ClipsOfId /\ (fs[PathA].written.minor <= 4 \/ last.id \in {"", "c"})

\* The keyframes written for a bone name, in the order of the file.
KeyframesOf(clip, name) ==
    Flatten([i \in 1..Len(clip.bones) |->
                IF ToStr(clip.bones[i].name) = name THEN clip.bones[i].keyframes ELSE <<>>])

\* The keys of a channel: of the keyframes whose flag has the bit, all of
\* them in the versions without flag, in the order of the file.
WrittenKeys(clip, bit, Val(_)) ==
    [name \in {ToStr(clip.bones[i].name) : i \in 1..Len(clip.bones)} |->
        Bind(SelectSeq(KeyframesOf(clip, name),
                       LAMBDA kf : fs[PathA].written.minor \in {1, 2, 3}
                                       \/ (kf.flag \div (2 ^ bit)) % 2 = 1),
             LAMBDA kfs : [j \in 1..Len(kfs) |-> [time |-> kfs[j].time, key |-> Val(kfs[j])]])]

(***************************************************************************)
(* C19: in loadAnimationDataBinary each keyframe of a version other than   *)
(* "0.1", "0.2", "0.3" carries a one-byte flag and exactly the channels    *)
(* whose bit is set are read and appended (bit 0 rotation, bit 1 scale,    *)
(* bit 2 translation, in that order); in the versions "0.1" to "0.3" no    *)
(* flag is read and every keyframe has the three channels; the keys of a   *)
(* bone's channel are in the order of the file, unsorted.                  *)
(***************************************************************************)
C19_ChannelsByFlag ==
    (AnimationsOfBinary /\ ClipWithId
        /\ (fs[PathA].written.counted <=> fs[PathA].written.minor \in {3, 4})) =>
        /\ last.ret
        /\ animationdata._rotationKeys = WrittenKeys(ClipRead, 0, Rotation)
        /\ animationdata._scaleKeys = WrittenKeys(ClipRead, 1, Scale)
        /\ animationdata._translationKeys = WrittenKeys(ClipRead, 2, Translation)

\* Two keyframes, the later time first, the first without scale, the second
\* of rotation alone.
C19_Witness ==
    /\ AnimationsOfBinary
    /\ last.ret
    /\ fs[PathA].written.minor = 5
    /\ Len(fs[PathA].written.clips[1].bones) = 1
    /\ Bind(fs[PathA].written.clips[1].bones[1].keyframes, LAMBDA kfs :
       /\ Len(kfs) = 2
       /\ kfs[1] = [time |-> 2, flag |-> 13]
       /\ kfs[2] = [time |-> 1, flag |-> 1])
    /\ Len(animationdata._rotationKeys["a"]) = 2
    /\ animationdata._rotationKeys["a"][1].time = 2
    /\ animationdata._scaleKeys["a"] = <<>>
    /\ Len(animationdata._translationKeys["a"]) = 1

\* What a loader writes: loadBinary and loadJson start with clear() and the
\* read of the file, and load sets the format flag in front of them.
loaderVars ==
    <<_isBinary, _version, _referenceCount, _references, _binaryBuffer, _jsonBuffer,
      _binaryReader, _jsonReader>>

(***************************************************************************)
(* C20: load chooses the parser by the extension of the path alone: a      *)
(* ".c3b" path not yet loaded goes through the binary loader, a ".c3t"     *)
(* path through the JSON loader, and a path of any other extension, or the *)
(* empty path, returns false with neither loader run; after a load that    *)
(* returned true the format flag is the one of the extension of the path   *)
(* loaded.                                                                 *)
(***************************************************************************)
C20_ParserByExtension ==
    [][last'.op = "load" =>
          Bind(getFileExtension(last'.path), LAMBDA ext :
          /\ last'.path = EmptyPath => ~last'.ret /\ UNCHANGED bundleVars
          /\ ext \notin {".c3b", ".c3t"} => ~last'.ret /\ UNCHANGED loaderVars
          /\ (ext = ".c3b" /\ ~last'.already) =>
                 /\ _isBinary'
                 /\ UNCHANGED <<_jsonBuffer, _jsonReader>>
                 /\ last'.ret => _binaryBuffer' = getDataFromFile(last'.path)
          /\ (ext = ".c3t" /\ ~last'.already) =>
                 /\ ~_isBinary'
                 /\ UNCHANGED <<_binaryBuffer, _binaryReader, _references, _referenceCount>>
                 /\ last'.ret => _jsonBuffer' = getStringFromFile(last'.path)
          /\ last'.ret =>
                 /\ _path' = last'.path
                 /\ ext \in {".c3b", ".c3t"}
                 /\ _isBinary' <=> ext = ".c3b")]_vars

\* A path of another extension refused after a bundle was loaded, the
\* loaded bundle's buffer still there.
C20_Witness ==
    /\ last.op = "load"
    /\ last.path = PathX
    /\ ~last.ret
    /\ _binaryBuffer /= <<>>
    /\ _isBinary

(***************************************************************************)
(* The specification of the legacy node trees: loadNodes on the skins of   *)
(* the skin specification written as bundles of the versions "0.1" and     *)
(* "0.2" (binary) and "1.2" and "0.2" (JSON), where loadNodes builds the   *)
(* nodes from the skin.                                                    *)
(***************************************************************************)
LegacySkinBundle(minor, s) ==
    SectionBundle(0, minor, <<115>>, BUNDLE_TYPE_MESHSKIN, WriteSkin(s))
LegacySkinFiles ==
    {BinaryFile(LegacySkinBundle(minor, s), [skin |-> s, whole |-> TRUE]) :
        minor \in {1, 2}, s \in WrittenSkins}
LegacySkinDocs ==
    {[doc EXCEPT !.version = v] : doc \in SkinDocs, v \in {Version("0.2"), VersionArray}}

InitBones ==
    /\ fs \in FileSystems(LegacySkinFiles, {NoFile}, {NoFile})
              \cup FileSystems({NoFile}, {NoFile}, {JsonFile(doc) : doc \in LegacySkinDocs})
    /\ InitState

NextBones ==
    \/ Load(PathA)
    \/ Load(PathT)
    \/ LoadNodes

SpecBones == InitBones /\ [][NextBones]_vars

\* How many of the pointers handed out are to nodeDatas[index].
Owners(pointers, index) ==
    Cardinality({pk \in UNION {{<<parent, k>> : k \in 1..Len(pointers.children[parent])} :
                                  parent \in DOMAIN pointers.children} :
                    pointers.children[pk[1]][pk[2]] = index})
        + Cardinality({k \in 1..Len(pointers.top) : pointers.top[k] = index})

PointedAt(pointers) ==
    {pointers.top[k] : k \in 1..Len(pointers.top)}
        \cup UNION {{parent} \cup {pointers.children[parent][k] :
                                      k \in 1..Len(pointers.children[parent])} :
                       parent \in DOMAIN pointers.children}

\* The nodes under a node, at most depth generations down.
RECURSIVE Under(_, _, _)
Under(pointers, index, depth) ==
    IF depth = 0 \/ index \notin DOMAIN pointers.children THEN {}
    ELSE Bind({pointers.children[index][k] : k \in 1..Len(pointers.children[index])},
              LAMBDA below :
         below \cup UNION {Under(pointers, child, depth - 1) : child \in below})

(***************************************************************************)
(* C21: the nodes loadNodes builds from the skin of a legacy version       *)
(* ("0.1", "1.2", "0.2") are owned trees: a NodeData is in at most one     *)
(* children list or top-level list, once, and is not under itself,         *)
(* whatever the link records.                                              *)
(***************************************************************************)
C21_OwnedTrees ==
    (last.op = "loadNodes" /\ ~aborted) =>
        \A index \in PointedAt(last.pointers) :
            /\ Owners(last.pointers, index) <= 1
            /\ index \notin Under(last.pointers, index, Cardinality(PointedAt(last.pointers)))

MaterialsOfJson(version) ==
    /\ last.op = "loadMaterials"
    /\ ~aborted
    /\ ~_isBinary
    /\ _path = PathT
    /\ _version = version
    /\ HasMember(fs[PathT].text.doc, "material")

\* The diffuse texture the legacy loaders build for a file name.
LegacyTexture(filename) ==
    [NewTextureData EXCEPT !.filename = IF filename = "" THEN "" ELSE "m/" \o filename,
                           !.type = "Diffuse"]

(***************************************************************************)
(* C22: the two legacy JSON material loaders keep their shapes.  For the   *)
(* version "1.2" loadMaterials gives at most one material, of exactly one  *)
(* diffuse texture taken from "base"[0] of entry 0, and no material when   *)
(* the array is empty or entry 0 has no "base"; for the version "0.2" it   *)
(* gives exactly one material, of one diffuse texture for each entry of    *)
(* the "material" array (none when the array is empty).                    *)
(***************************************************************************)
C22_LegacyJsonMaterials ==
    /\ MaterialsOfJson("1.2") =>
           Bind(fs[PathT].text.doc.material, LAMBDA array :
           /\ last.ret
           /\ IF array = <<>> \/ ~HasMember(array[1], "base") THEN materialdatas = <<>>
              ELSE materialdatas =
                       <<[id |-> "", textures |-> <<LegacyTexture(array[1].base[1].filename)>>]>>)
    /\ MaterialsOfJson("0.2") =>
           Bind(fs[PathT].text.doc.material, LAMBDA array :
           /\ last.ret
           /\ materialdatas =
                  <<[id |-> "",
                     textures |-> [i \in 1..Len(array) |-> LegacyTexture(array[i].textures)]]>>)

C22_Witness ==
    /\ MaterialsOfJson("0.2")
    /\ Len(fs[PathT].text.doc.material) = 2
    /\ last.ret
    /\ Len(materialdatas) = 1
    /\ Len(materialdatas[1].textures) = 2

(***************************************************************************)
(* The specification of getTrianglesList: the files of the mesh            *)
(* specification under m/a.c3b and under the four-character path .c3b, or  *)
(* its documents under m/t.c3t, and a call with each path.                 *)
(***************************************************************************)
InitTriangles ==
    /\ fs \in {[p \in Paths |-> IF p \in {PathA, PathS} THEN file ELSE NoFile] :
                  file \in MeshFiles}
              \cup FileSystems({NoFile}, {NoFile}, {JsonFile(doc) : doc \in MeshDocs})
    /\ InitState

NextTriangles == \E path \in Paths \cup {EmptyPath} : GetTrianglesList(path)

SpecTriangles == InitTriangles /\ [][NextTriangles]_vars

\* What load and loadMeshDatas give a bundle of its own for the path.
LoadedFor(path) == load(NewBundle, path)
MeshesFor(path) == loadMeshDatas(LoadedFor(path).self).meshDatas

\* The position an index names, where the mesh has the vertex.
Position(meshData, ind) ==
    Bind(getPerVertexSize(meshData) \div 4, LAMBDA stride :
    <<meshData.vertex[ind * stride + 1], meshData.vertex[ind * stride + 2],
      meshData.vertex[ind * stride + 3]>>)
Named(meshData, ind) ==
    ind * (getPerVertexSize(meshData) \div 4) + 3 <= Len(meshData.vertex)

AllIndices(meshData) == Flatten(meshData.subMeshIndices)

(***************************************************************************)
(* C23: getTrianglesList returns one position for each index occurrence:   *)
(* as many as the index counts of all sub-meshes of all loaded meshes add  *)
(* up to, element k the first three floats of the vertex the k-th index    *)
(* names, in mesh, sub-mesh and index order; and the empty list when the   *)
(* path has at most 4 characters or the load fails.                        *)
(***************************************************************************)
C23_OnePositionPerIndex ==
    (last.op = "getTrianglesList" /\ ~aborted) =>
        IF Length(last.path) <= 4 \/ ~LoadedFor(last.path).ret
        THEN last.trianglesList = <<>>
        ELSE Bind(MeshesFor(last.path), LAMBDA meshs :
             /\ \A m \in 1..Len(meshs) : \A k \in 1..Len(AllIndices(meshs[m])) :
                    Named(meshs[m], AllIndices(meshs[m])[k])
             /\ last.trianglesList =
                    Flatten([m \in 1..Len(meshs) |->
                                [k \in 1..Len(AllIndices(meshs[m])) |->
                                    Position(meshs[m], AllIndices(meshs[m])[k])]]))

(***************************************************************************)
(* The specification of calculateAABB: vertex arrays of 8 floats over two  *)
(* values and one of far coordinates, strides of 3 and 4 floats, index     *)
(* lists of the mesh specification (the index 2 names no whole vertex).    *)
(***************************************************************************)
FarVertex == <<100000, 1, -100000, 100001, 5, -100001, 1, 5>>
VertexArrays == [1..8 -> {1, 5}] \cup {FarVertex}

InitAABB ==
    /\ fs = [p \in Paths |-> NoFile]
    /\ InitState

\* The function has no state: a behaviour is one call.
NextAABB ==
    /\ last.op = "new"
    /\ \E vertex \in VertexArrays, stride \in {12, 16}, indices \in IndexArrays :
           CalculateAABB(vertex, stride, indices)

SpecAABB == InitAABB /\ [][NextAABB]_vars

\* The points the indices name, for indices that name a vertex.
PointsOf(vertex, s, indices) ==
    {<<vertex[indices[k] * s + 1], vertex[indices[k] * s + 2], vertex[indices[k] * s + 3]>> :
        k \in 1..Len(indices)}

(***************************************************************************)
(* C24: calculateAABB(vertex, stride, indices) is the least box around the *)
(* points (vertex[i*s], vertex[i*s+1], vertex[i*s+2]) for i in indices,    *)
(* s = stride/4: its min and max are the componentwise minimum and maximum *)
(* of these points, whatever the order and the multiplicity of the indices *)
(* and whatever the vertices that are not indexed.                         *)
(***************************************************************************)
C24_MinimalBox ==
    (last.op = "calculateAABB" /\ ~aborted /\ last.indices /= <<>>) =>
        Bind(last.stride \div 4, LAMBDA s :
        /\ \A k \in 1..Len(last.indices) : last.indices[k] * s + 3 <= Len(last.vertex)
        /\ Bind(PointsOf(last.vertex, s, last.indices), LAMBDA points :
           \A c \in 1..3 :
               /\ \E pt \in points : last.aabb._min[c] = pt[c]
               /\ \E pt \in points : last.aabb._max[c] = pt[c]
               /\ \A pt \in points : last.aabb._min[c] <= pt[c] /\ pt[c] <= last.aabb._max[c]))

(***************************************************************************)
(* C25: in every reachable state the reference count describes the         *)
(* reference table held: while there is no table (not yet allocated, or    *)
(* freed by clear(), by a loadBinary that failed, or left behind by a      *)
(* later .c3t load) the count is 0 and the table has as many references    *)
(* as the count says, so that seekToFirstType indexes no freed or null     *)
(* table.                                                                  *)
(***************************************************************************)
C25_CountDescribesTable ==
    /\ _references.isNull => _referenceCount = 0
    /\ ~_references.isNull => _referenceCount = Len(_references.arr)
    /\ last.op = "seekToFirstType" => last.fault /= "null_table"


(***************************************************************************)
(* C26: when loadMeshDatas of a binary bundle fails, every MeshData the    *)
(* call allocated is released exactly once; none is released twice.        *)
(***************************************************************************)
C26_ReleasedExactlyOnce ==
    (last.op = "loadMeshDatas" /\ ~last.ret) =>
        \A k \in DOMAIN last.frees : last.frees[k] = 1


(***************************************************************************)
(* C27: loadNodes returns false whenever a top-level node of the section   *)
(* fails to parse (or the section loader fails), and no entry of nodes or  *)
(* skeleton is null after the call.                                        *)
(***************************************************************************)
TopLevelBadPart(ns) ==
    \E i \in 1..Len(ns) :
        \E p \in 1..Len(ns[i].parts) :
            ns[i].parts[p].meshpartid = <<>> \/ ns[i].parts[p].materialid = <<>>

C27_FailureReported ==
    (last.op = "loadNodes" /\ _path \in {PathA, PathT})
        => /\ \A e \in 1..Len(Entries) : ~Entries[e].isNull
           /\ (~fs[_path].written.whole \/ TopLevelBadPart(fs[_path].written.nodes))
                  => ~last.ret


(***************************************************************************)
(* C28: a failed load is not remembered.  After load(p) of a path that is  *)
(* not empty returned false, _path is empty, so the next load of any path  *)
(* that is not empty (p itself, or a path loaded with success before the   *)
(* failure) is not answered as already loaded but parses; and _path takes  *)
(* a value that is not empty only in a load of that value that returned    *)
(* true.  load of the empty path returns false and changes nothing.        *)
(***************************************************************************)
C28_FailureNotRemembered ==
    [][/\ (last'.op = "load" /\ last'.path /= EmptyPath /\ ~last'.ret)
              => _path' = EmptyPath
       /\ (last.op = "load" /\ last.path /= EmptyPath /\ ~last.ret /\ last'.op = "load")
              => ~last'.already
       /\ (_path' /= EmptyPath /\ _path' /= _path)
              => (last'.op = "load" /\ last'.ret /\ ~last'.already /\ last'.path = _path')
       /\ (last'.op = "load" /\ last'.path = EmptyPath)
              => (~last'.ret /\ UNCHANGED bundleVars)]_vars

\* A binary bundle was loaded (its reference table is held) and the load of
\* another path after it has failed: the path of the bundle is empty.
C28_Witness ==
    /\ last.op = "load" /\ ~last.ret /\ last.path = PathX
    /\ _path = EmptyPath
    /\ ~_references.isNull /\ _referenceCount > 0

\* C28 as stated, for every path: after any load that returned false the
\* path of the bundle is empty.
C28_FailedLoadEmptiesPath ==
    (last.op = "load" /\ ~last.ret) => _path = EmptyPath


(***************************************************************************)
(* C29: on a loaded bundle a section loader called a second time in a row  *)
(* with the aggregate the first call filled leaves that aggregate as the   *)
(* first call left it.                                                     *)
(***************************************************************************)
SectionLoaders == {"loadMeshDatas", "loadMaterials", "loadSkinData", "loadAnimationData",
                   "loadNodes"}

\* The NodeDatas handed to the call is the one the caller holds, and the
\* animation asked for is the one asked for before.
SameAggregate ==
    /\ last'.op = "loadNodes" => last'.held = Len(nodedatas.nodes) + Len(nodedatas.skeleton)
    /\ last'.op = "loadAnimationData" => last'.id = last.id

C29_TwiceAsOnce ==
    [][(/\ _path /= EmptyPath
        /\ last.op \in SectionLoaders /\ last'.op = last.op
        /\ last.fault = "" /\ last'.fault = ""
        /\ SameAggregate)
           => outVars' = outVars]_vars


(***************************************************************************)
(* C30: loadNodesBinary puts a top-level node on the skeleton list when    *)
(* the skeleton flag of that node is set and on the nodes list when it is  *)
(* clear, whatever the flags of its descendants and of the other top-level *)
(* nodes.                                                                  *)
(***************************************************************************)
\* The ids of the written top-level nodes with the flag set, and with it clear.
WrittenTop(ns, skeleton) ==
    SelectSeq([i \in 1..Len(ns) |-> ns[i]], LAMBDA n : n.skeleton = skeleton)

IdsOf(list) == [i \in 1..Len(list) |-> list[i].id]
WrittenIds(list) == [i \in 1..Len(list) |-> ToStr(list[i].id)]

C30_OwnFlagOnly ==
    (/\ last.op = "loadNodes" /\ last.held = 0 /\ last.fault = ""
     /\ _isBinary /\ _path = PathA /\ fs[PathA].written.whole
     /\ \A e \in 1..Len(Entries) : ~Entries[e].isNull /\ NoNullChild(Entries[e]))
        => /\ IdsOf(nodedatas.skeleton) = WrittenIds(WrittenTop(fs[PathA].written.nodes, TRUE))
           /\ IdsOf(nodedatas.nodes) = WrittenIds(WrittenTop(fs[PathA].written.nodes, FALSE))

====
